---------------------------- MODULE Spec2Model ----------------------------
(***************************************************************************)
(* A model of the fauxboy SM83 CPU core (src/src/cpu.cpp), its register    *)
(* layer (register.hpp / util.hpp) and the OpenBus + tick callback of the  *)
(* SingleStepTests harness.  One Step is one call of Cpu::step; it is      *)
(* computed by the operators below, which thread a machine record          *)
(*   m = [cpu, mem, last, bad, val, cycles, err, errOpcode, onTick]        *)
(* through the calls the C++ code makes, in the order it makes them.       *)
(***************************************************************************)
EXTENDS Integers, Sequences, FiniteSets, TLC

VARIABLES
    cpu,      \* the register file: A_,B_,C_,D_,E_,F_,H_,L_,SP_,PC_ of Cpu
    memory_,  \* OpenBus::memory_ (sparse: addresses never written hold 0)
    lastMemoryAccess_, \* OpenBus::lastMemoryAccess_
    bad,      \* the addresses at which the bus throws BadMemoryAccessException
    cycles,   \* the bus accesses and tick callbacks of the last step, in order
    err,      \* how the last step ended: [kind, opcode]
    log,      \* one record per step since the last load (history)
    initial,  \* testData.initial.cpuState of the loaded case
    loads     \* number of test cases loaded so far

vars == <<cpu, memory_, lastMemoryAccess_, bad, cycles, err, log, initial, loads>>

-----------------------------------------------------------------------------
(* Bounds of the model *)

MaxSteps == 2

-----------------------------------------------------------------------------
(* Fixed-width integers and bitwise operators *)

Byte == 0..255
U8(x) == x % 256
U16(x) == x % 65536

RECURSIVE BitAnd(_, _)
BitAnd(a, b) ==
    IF a = 0 \/ b = 0 THEN 0
    ELSE ((a % 2) * (b % 2)) + 2 * BitAnd(a \div 2, b \div 2)

RECURSIVE BitOr(_, _)
BitOr(a, b) ==
    IF a = 0 THEN b
    ELSE IF b = 0 THEN a
    ELSE (IF (a % 2) + (b % 2) > 0 THEN 1 ELSE 0) + 2 * BitOr(a \div 2, b \div 2)

RECURSIVE BitXor(_, _)
BitXor(a, b) ==
    IF a = 0 THEN b
    ELSE IF b = 0 THEN a
    ELSE (((a % 2) + (b % 2)) % 2) + 2 * BitXor(a \div 2, b \div 2)

\* ~x on a byte (the result of ~A() is narrowed back to uint8_t)
BitNot8(x) == 255 - x

\* static_cast<std::int8_t>(byte)
Int8(b) == IF b >= 128 THEN b - 256 ELSE b

\* util.hpp getLower / getUpper (T = uint16_t: shift is 8)
getLower(value) == BitAnd(value, 255)
getUpper(value) == BitAnd(value \div 256, 255)

\* util.hpp setLower / setUpper on a uint16_t
setLower(value, byte) == BitOr(BitAnd(value, 65280), byte)
setUpper(value, byte) == BitOr(BitAnd(value, 255), byte * 256)

-----------------------------------------------------------------------------
(* Cpu::Flag *)

CARRY == 16
HALF_CARRY == 32
NEGATIVE == 64
ZERO == 128

\* FlagRegister::isSet
isSet(f, flag) == BitAnd(f, flag) # 0

\* FlagRegister::setFlag: value = ((value & ~flag) | (flag * shouldSet))
setFlag(f, flag, shouldSet) ==
    BitOr(BitAnd(f, BitNot8(flag)), IF shouldSet THEN flag ELSE 0)

\* FlagRegister::toggleFlag
toggleFlag(f, flag) == setFlag(f, flag, ~isSet(f, flag))

\* Register<T>::operator=(T): the value is stored as given.  FlagRegister
\* inherits it (using Register<U>::operator=), so F is stored unmasked.
RegisterAssign(newValue) == newValue

\* RegisterPairView::operator(): ((hi << 8) | lo)
PairValue(hi, lo) == BitOr(hi * 256, lo)

-----------------------------------------------------------------------------
(* The machine record and the bus *)

Ok(m) == m.err = "none"

\* memory_[address.value]; OpenBus() and OpenBus::reset fill the memory with 0
MemAt(mem, a) == IF a \in DOMAIN mem THEN mem[a] ELSE 0
MemPut(mem, a, v) == [x \in (DOMAIN mem) \cup {a} |-> IF x = a THEN v ELSE mem[x]]

Event(kind, address, data, seen, after) ==
    [kind |-> kind, address |-> address, data |-> data, seen |-> seen, after |-> after]

\* throw: the rest of the step is skipped (every operator below is the
\* identity on a machine whose err is set)
Throw(m, kind, opcode) ==
    IF Ok(m) THEN [m EXCEPT !.err = kind, !.errOpcode = opcode] ELSE m

\* OpenBus::read; a bus may instead throw BadMemoryAccessException
Bus_read(m, address) ==
    IF ~Ok(m) THEN m
    ELSE IF address \in m.bad THEN Throw(m, "bus", address)
    ELSE LET l == [m.last EXCEPT !.address = address, !.accessMode = "READ"]
         IN [m EXCEPT !.last = l,
                      !.val = MemAt(m.mem, address),
                      !.cycles = Append(@, Event("read", address, MemAt(m.mem, address), l, "bus"))]

\* OpenBus::write
Bus_write(m, address, value) ==
    IF ~Ok(m) THEN m
    ELSE IF address \in m.bad THEN Throw(m, "bus", address)
    ELSE LET l == [address |-> address, data |-> value, accessMode |-> "WRITE"]
         IN [m EXCEPT !.last = l,
                      !.mem = MemPut(m.mem, address, value),
                      !.cycles = Append(@, Event("write", address, value, l, "bus"))]

\* The tick callback of SingleStepTests: it looks at bus.getLastMemoryAccess();
\* it is handed the Cpu, whose PC() and HL() at the call are recorded too.
\* Cpu::tick runs it only if one is installed (m.onTick)
onTick(m, after) ==
    IF ~Ok(m) \/ ~m.onTick THEN m
    ELSE [m EXCEPT !.cycles = Append(@, [kind |-> "tick", address |-> 0, data |-> 0,
                                         seen |-> m.last, after |-> after,
                                         PC |-> m.cpu.PC,
                                         HL |-> PairValue(m.cpu.H, m.cpu.L)])]

\* Cpu::tick, called by an instruction body (an internal delay cycle)
tick(m) == onTick(m, "internal")

\* mutant of read: the bus is read only when a callback is installed
read_WhenObserved(m, address) ==
    IF m.onTick THEN onTick(Bus_read(m, address), "access") ELSE m

\* Cpu::read: bus_->read(address); tick(); return value  (the value is m.val)
read(m, address) == onTick(Bus_read(m, address), "access")

\* mutant of write: the callback runs before the bus is written
write_TickFirst(m, address, value) == Bus_write(onTick(m, "access"), address, value)

\* Cpu::write: bus_->write(address, value); tick()
write(m, address, value) == onTick(Bus_write(m, address, value), "access")

\* A noexcept function: an exception leaving it calls std::terminate
noexcept(m) == IF m.err = "bus" THEN [m EXCEPT !.err = "terminate"] ELSE m

-----------------------------------------------------------------------------
(* Registers *)

RegNames == {"A", "B", "C", "D", "E", "F", "H", "L", "SP", "PC"}

SetReg(m, r, v) == IF Ok(m) THEN [m EXCEPT !.cpu[r] = RegisterAssign(v)] ELSE m
SetF(m, f) == SetReg(m, "F", f)
SetFlag(m, flag, shouldSet) == SetF(m, setFlag(m.cpu.F, flag, shouldSet))

\* the pair views AF_, BC_, DE_, HL_ = {&upper, &lower}
AF_ == <<"A", "F">>
BC_ == <<"B", "C">>
DE_ == <<"D", "E">>
HL_ == <<"H", "L">>

upper(regPair) == regPair[1]
lower(regPair) == regPair[2]
Pair(m, regPair) == PairValue(m.cpu[upper(regPair)], m.cpu[lower(regPair)])
AF(m) == Pair(m, AF_)
BC(m) == Pair(m, BC_)
DE(m) == Pair(m, DE_)
HL(m) == Pair(m, HL_)

\* mutant of readNextByteAndAdvance: the byte is read at the advanced PC
readNextByteAndAdvance_ReadsNew(m) ==
    LET m1 == SetReg(m, "PC", U16(m.cpu.PC + 1))
    IN noexcept(read(m1, m1.cpu.PC))

\* Cpu::readNextByteAndAdvance (noexcept): oldPC = PC(); ++PC_; read(oldPC)
readNextByteAndAdvance(m) ==
    LET oldPC == m.cpu.PC
    IN noexcept(read(SetReg(m, "PC", U16(oldPC + 1)), oldPC))

-----------------------------------------------------------------------------
(* ALU, shift and bit helpers.  Each value-level operator takes the target *)
(* byte and F and returns [v |-> new byte, f |-> new F], in the order of   *)
(* the setFlag calls of the C++ body.                                      *)

Res(v, f) == [v |-> v, f |-> f]

\* setFlag(ZERO, z); setFlag(NEGATIVE, n); setFlag(HALF_CARRY, h)
Flags3(f, z, n, h) ==
    setFlag(setFlag(setFlag(f, ZERO, z), NEGATIVE, n), HALF_CARRY, h)

\* ... followed by setFlag(CARRY, c)
Flags4(f, z, n, h, c) == setFlag(Flags3(f, z, n, h), CARRY, c)

\* reg = result; F_ = flags  (reg is a register of the file)
Store(m, r, x) == SetF(SetReg(m, r, x.v), x.f)

\* mutant of INC: the half carry is taken from the result's low nibble
INCv_HalfOfResult(oldValue, f) ==
    LET shift == 1
        result == U8(oldValue + shift)
    IN Res(result, Flags3(f, result = 0, FALSE, BitAnd(result, 15) = 15))

\* Cpu::INC(ByteRegister&)
INCv(oldValue, f) ==
    LET shift == 1
        result == U8(oldValue + shift)
    IN Res(result, Flags3(f, result = 0, FALSE,
                          BitAnd(BitAnd(oldValue, 15) + shift, 16) # 0))

\* Cpu::DEC(ByteRegister&)
DECv(value, f) ==
    LET result == U8(value - 1)
    IN Res(result, Flags3(f, result = 0, TRUE, BitAnd(result, 15) = 15))

INC(m, r) == Store(m, r, INCv(m.cpu[r], m.cpu.F))
DEC(m, r) == Store(m, r, DECv(m.cpu[r], m.cpu.F))

\* mutant of INC_Pair: the carry out of the low byte is lost
INC_Pair_NoCarry(m, regPair) ==
    LET result == U16(Pair(m, regPair) + 1)
    IN tick(SetReg(m, lower(regPair), getLower(result)))

\* Cpu::INC(RegisterPairView): lower = getLower(result); tick(); upper = getUpper(result)
INC_Pair(m, regPair) ==
    LET result == U16(Pair(m, regPair) + 1)
    IN SetReg(tick(SetReg(m, lower(regPair), getLower(result))),
              upper(regPair), getUpper(result))

\* mutant of DEC_Pair: N is set, as the 8-bit DEC does
DEC_Pair_SetsN(m, regPair) ==
    LET result == U16(Pair(m, regPair) - 1)
    IN SetFlag(SetReg(tick(SetReg(m, lower(regPair), getLower(result))),
                      upper(regPair), getUpper(result)),
               NEGATIVE, TRUE)

\* Cpu::DEC(RegisterPairView)
DEC_Pair(m, regPair) ==
    LET result == U16(Pair(m, regPair) - 1)
    IN SetReg(tick(SetReg(m, lower(regPair), getLower(result))),
              upper(regPair), getUpper(result))

\* Cpu::INC(ShortRegister&): reg.setLower(..); tick(); reg.setUpper(..)
INC_Short(m, r) ==
    LET result == U16(m.cpu[r] + 1)
        m1 == tick(SetReg(m, r, setLower(m.cpu[r], getLower(result))))
    IN SetReg(m1, r, setUpper(m1.cpu[r], getUpper(result)))

\* Cpu::DEC(ShortRegister&)
DEC_Short(m, r) ==
    LET result == U16(m.cpu[r] - 1)
        m1 == tick(SetReg(m, r, setLower(m.cpu[r], getLower(result))))
    IN SetReg(m1, r, setUpper(m1.cpu[r], getUpper(result)))

\* Cpu::ADD(ByteRegister&, uint8_t)
ADDv(oldValue, shift, f) ==
    LET extendedResult == oldValue + shift
        result == getLower(extendedResult)
    IN Res(result, Flags4(f, result = 0, FALSE,
                          BitAnd(BitAnd(oldValue, 15) + BitAnd(shift, 15), 240) # 0,
                          BitAnd(extendedResult, 65280) # 0))

\* mutant of ADC: the half carry leaves the carry-in out
ADCv_HalfNoCarry(oldValue, shift, f) ==
    LET carry == IF isSet(f, CARRY) THEN 1 ELSE 0
        extendedResult == oldValue + shift + carry
        result == getLower(extendedResult)
    IN Res(result, Flags4(f, result = 0, FALSE,
                          BitAnd(BitAnd(oldValue, 15) + BitAnd(shift, 15), 240) # 0,
                          BitAnd(extendedResult, 65280) # 0))

\* Cpu::ADC
ADCv(oldValue, shift, f) ==
    LET carry == IF isSet(f, CARRY) THEN 1 ELSE 0
        extendedResult == oldValue + shift + carry
        result == getLower(extendedResult)
    IN Res(result, Flags4(f, result = 0, FALSE,
                          BitAnd(BitAnd(oldValue, 15) + BitAnd(shift, 15) + carry, 240) # 0,
                          BitAnd(extendedResult, 65280) # 0))

\* Cpu::SUB
SUBv(oldValue, shift, f) ==
    LET result == U8(oldValue - shift)
    IN Res(result, Flags4(f, result = 0, TRUE,
                          BitAnd(shift, 15) > BitAnd(oldValue, 15),
                          shift > oldValue))

\* mutant of SBC: shift + carry is narrowed to a byte before the comparison
SBCv_CarryNarrow(oldValue, shift, f) ==
    LET carry == IF isSet(f, CARRY) THEN 1 ELSE 0
        result == U8(oldValue - shift - carry)
    IN Res(result, Flags4(f, result = 0, TRUE,
                          (BitAnd(shift, 15) + carry) > BitAnd(oldValue, 15),
                          U8(shift + carry) > oldValue))

\* Cpu::SBC
SBCv(oldValue, shift, f) ==
    LET carry == IF isSet(f, CARRY) THEN 1 ELSE 0
        result == U8(oldValue - shift - carry)
    IN Res(result, Flags4(f, result = 0, TRUE,
                          (BitAnd(shift, 15) + carry) > BitAnd(oldValue, 15),
                          (shift + carry) > oldValue))

\* Cpu::AND / XOR / OR
ANDv(old, value, f) ==
    LET result == BitAnd(old, value)
    IN Res(result, Flags4(f, result = 0, FALSE, TRUE, FALSE))

XORv(old, value, f) ==
    LET result == BitXor(old, value)
    IN Res(result, Flags4(f, result = 0, FALSE, FALSE, FALSE))

ORv(old, value, f) ==
    LET result == BitOr(old, value)
    IN Res(result, Flags4(f, result = 0, FALSE, FALSE, FALSE))

\* mutant of CP: the difference is stored, as SUB does
CPv_Store(oldValue, shift, f) ==
    LET result == U8(oldValue - shift)
    IN Res(result, Flags4(f, result = 0, TRUE,
                          BitAnd(shift, 15) > BitAnd(oldValue, 15),
                          shift > oldValue))

\* Cpu::CP (the register is left alone)
CPv(oldValue, shift, f) ==
    LET result == U8(oldValue - shift)
    IN Res(oldValue, Flags4(f, result = 0, TRUE,
                            BitAnd(shift, 15) > BitAnd(oldValue, 15),
                            shift > oldValue))

\* the eight ALU operations in opcode order (0x80.. / 0xC6..): reg is A_
ALUv(k, a, x, f) ==
    CASE k = 0 -> ADDv(a, x, f)
      [] k = 1 -> ADCv(a, x, f)
      [] k = 2 -> SUBv(a, x, f)
      [] k = 3 -> SBCv(a, x, f)
      [] k = 4 -> ANDv(a, x, f)
      [] k = 5 -> XORv(a, x, f)
      [] k = 6 -> ORv(a, x, f)
      [] k = 7 -> CPv(a, x, f)

ALU(m, k, value) == Store(m, "A", ALUv(k, m.cpu.A, value, m.cpu.F))

\* mutant of ADD_Pair: the half carry is taken out of bit 7
ADD_Pair_HalfLow(m, regPair, shift) ==
    LET oldValue == Pair(m, regPair)
        result == oldValue + shift
        m1 == tick(SetReg(m, lower(regPair), BitAnd(result, 255)))
        m2 == SetReg(m1, upper(regPair), BitAnd(result \div 256, 255))
        m3 == SetFlag(m2, NEGATIVE, FALSE)
        m4 == SetFlag(m3, HALF_CARRY,
                      BitAnd(BitAnd(oldValue, 255) + BitAnd(shift, 255), 256) # 0)
    IN SetFlag(m4, CARRY, BitAnd(result, 65536) # 0)

\* Cpu::ADD(RegisterPairView, uint16_t)
ADD_Pair(m, regPair, shift) ==
    LET oldValue == Pair(m, regPair)
        result == oldValue + shift
        m1 == tick(SetReg(m, lower(regPair), BitAnd(result, 255)))
        m2 == SetReg(m1, upper(regPair), BitAnd(result \div 256, 255))
        m3 == SetFlag(m2, NEGATIVE, FALSE)
        m4 == SetFlag(m3, HALF_CARRY,
                      BitAnd(BitAnd(oldValue, 4095) + BitAnd(shift, 4095), 4096) # 0)
    IN SetFlag(m4, CARRY, BitAnd(result, 65536) # 0)

-----------------------------------------------------------------------------
(* Control flow and stack helpers (all noexcept in the source) *)

\* mutant of JR: the displacement is added without sign extension
JR_Unsigned(m, shouldBranch) ==
    LET m1 == readNextByteAndAdvance(m)
        shift == m1.val
    IN noexcept(IF shouldBranch
                THEN LET m2 == tick(m1) IN SetReg(m2, "PC", U16(m2.cpu.PC + shift))
                ELSE m1)

\* Cpu::JR(bool)
JR(m, shouldBranch) ==
    LET m1 == readNextByteAndAdvance(m)
        shift == Int8(m1.val)
    IN noexcept(IF shouldBranch
                THEN LET m2 == tick(m1) IN SetReg(m2, "PC", U16(m2.cpu.PC + shift))
                ELSE m1)

\* mutant of RET: the high byte is popped first
RET_HighFirst(m) ==
    LET addrHi == m.cpu.SP
        m1 == read(SetReg(m, "SP", U16(m.cpu.SP + 1)), addrHi)
        hi == m1.val
        addrLo == m1.cpu.SP
        m2 == read(SetReg(m1, "SP", U16(m1.cpu.SP + 1)), addrLo)
        lo == m2.val
    IN noexcept(SetReg(tick(m2), "PC", BitOr(hi * 256, lo)))

\* Cpu::RET()
RET(m) ==
    LET addrLo == m.cpu.SP
        m1 == read(SetReg(m, "SP", U16(m.cpu.SP + 1)), addrLo)
        lo == m1.val
        addrHi == m1.cpu.SP
        m2 == read(SetReg(m1, "SP", U16(m1.cpu.SP + 1)), addrHi)
        hi == m2.val
    IN noexcept(SetReg(tick(m2), "PC", BitOr(hi * 256, lo)))

\* mutant of RET_cc: no internal tick before the condition is tested
RET_cc_NoTick(m, shouldBranch) ==
    noexcept(IF shouldBranch THEN RET(m) ELSE m)

\* Cpu::RET(bool)
RET_cc(m, shouldBranch) ==
    LET m1 == tick(m)
    IN noexcept(IF shouldBranch THEN RET(m1) ELSE m1)

\* mutant of POP: SP is advanced once, both bytes are read through it
POP_OneStep(m, regPair) ==
    LET addrLo == m.cpu.SP
        m1 == read(SetReg(m, "SP", U16(m.cpu.SP + 1)), addrLo)
        m2 == SetReg(m1, lower(regPair), m1.val)
        addrHi == m2.cpu.SP
        m3 == read(m2, addrHi)
    IN noexcept(SetReg(m3, upper(regPair), m3.val))

\* Cpu::POP(RegisterPairView)
POP(m, regPair) ==
    LET addrLo == m.cpu.SP
        m1 == read(SetReg(m, "SP", U16(m.cpu.SP + 1)), addrLo)
        m2 == SetReg(m1, lower(regPair), m1.val)
        addrHi == m2.cpu.SP
        m3 == read(SetReg(m2, "SP", U16(m2.cpu.SP + 1)), addrHi)
    IN noexcept(SetReg(m3, upper(regPair), m3.val))

\* mutant of JP: the internal tick is emitted whether or not the jump is taken
JP_TickAlways(m, shouldBranch) ==
    LET m1 == readNextByteAndAdvance(m)
        lo == m1.val
        m2 == readNextByteAndAdvance(m1)
        hi == m2.val
        m3 == tick(m2)
    IN noexcept(IF shouldBranch
                THEN SetReg(m3, "PC", BitOr(hi * 256, lo))
                ELSE m3)

\* Cpu::JP(bool)
JP(m, shouldBranch) ==
    LET m1 == readNextByteAndAdvance(m)
        lo == m1.val
        m2 == readNextByteAndAdvance(m1)
        hi == m2.val
    IN noexcept(IF shouldBranch
                THEN SetReg(tick(m2), "PC", BitOr(hi * 256, lo))
                ELSE m2)

\* mutant of PushPC: the low byte of PC is written first
PushPC_LowFirst(m) ==
    LET m1 == SetReg(m, "SP", U16(m.cpu.SP - 1))
        m2 == write(m1, m1.cpu.SP, getLower(m1.cpu.PC))
        m3 == SetReg(m2, "SP", U16(m2.cpu.SP - 1))
    IN write(m3, m3.cpu.SP, getUpper(m3.cpu.PC))

\* the two pushes shared by CALL and RST:
\*   --SP_; write(SP, PC_.upper()); --SP_; write(SP, PC_.lower())
PushPC(m) ==
    LET m1 == SetReg(m, "SP", U16(m.cpu.SP - 1))
        m2 == write(m1, m1.cpu.SP, getUpper(m1.cpu.PC))
        m3 == SetReg(m2, "SP", U16(m2.cpu.SP - 1))
    IN write(m3, m3.cpu.SP, getLower(m3.cpu.PC))

\* mutant of CALL: the internal tick is emitted before the condition is
\* tested, as RET cc does
CALL_TickAlways(m, shouldBranch) ==
    LET m1 == readNextByteAndAdvance(m)
        lo == m1.val
        m2 == readNextByteAndAdvance(m1)
        hi == m2.val
        value == BitOr(hi * 256, lo)
        m3 == tick(m2)
    IN noexcept(IF shouldBranch
                THEN SetReg(PushPC(m3), "PC", value)
                ELSE m3)

\* Cpu::CALL(bool)
CALL(m, shouldBranch) ==
    LET m1 == readNextByteAndAdvance(m)
        lo == m1.val
        m2 == readNextByteAndAdvance(m1)
        hi == m2.val
        value == BitOr(hi * 256, lo)
    IN noexcept(IF shouldBranch
                THEN SetReg(PushPC(tick(m2)), "PC", value)
                ELSE m2)

\* mutant of PUSH: the low byte is written first
PUSH_LowFirst(m, regPair) ==
    LET m1 == tick(m)
        m2 == SetReg(m1, "SP", U16(m1.cpu.SP - 1))
        m3 == write(m2, m2.cpu.SP, m2.cpu[lower(regPair)])
        m4 == SetReg(m3, "SP", U16(m3.cpu.SP - 1))
    IN noexcept(write(m4, m4.cpu.SP, m4.cpu[upper(regPair)]))

\* Cpu::PUSH(RegisterPairView)
PUSH(m, regPair) ==
    LET m1 == tick(m)
        m2 == SetReg(m1, "SP", U16(m1.cpu.SP - 1))
        m3 == write(m2, m2.cpu.SP, m2.cpu[upper(regPair)])
        m4 == SetReg(m3, "SP", U16(m3.cpu.SP - 1))
    IN noexcept(write(m4, m4.cpu.SP, m4.cpu[lower(regPair)]))

\* Cpu::RST(uint8_t)
RST(m, value) == noexcept(SetReg(PushPC(tick(m)), "PC", value))

-----------------------------------------------------------------------------
(* Rotates, shifts and bit operations of the extended table *)

CarryBit(f) == IF isSet(f, CARRY) THEN 1 ELSE 0

\* Cpu::RLC(ByteRegister&)
RLCv(value, f) ==
    LET carry == BitAnd(value, 128)
        result == U8(BitOr(value * 2, carry \div 128))
    IN Res(result, Flags4(f, result = 0, FALSE, FALSE, carry # 0))

\* mutant of RRC: bit 7 is filled from the incoming carry flag, as RR does
RRCv_ThroughCarry(value, f) ==
    LET carry == BitAnd(value, 1)
        result == U8(BitOr(value \div 2, (IF isSet(f, CARRY) THEN 1 ELSE 0) * 128))
    IN Res(result, Flags4(f, result = 0, FALSE, FALSE, carry # 0))

\* Cpu::RRC(ByteRegister&)
RRCv(value, f) ==
    LET carry == BitAnd(value, 1)
        result == U8(BitOr(value \div 2, carry * 128))
    IN Res(result, Flags4(f, result = 0, FALSE, FALSE, carry # 0))

\* Cpu::RL(ByteRegister&)
RLv(value, f) ==
    LET carry == BitAnd(value, 128)
        result == U8(BitOr(value * 2, CarryBit(f)))
    IN Res(result, Flags4(f, result = 0, FALSE, FALSE, carry # 0))

\* Cpu::RR(ByteRegister&)
RRv(value, f) ==
    LET carry == BitAnd(value, 1)
        result == U8(BitOr(value \div 2, CarryBit(f) * 128))
    IN Res(result, Flags4(f, result = 0, FALSE, FALSE, carry # 0))

\* Cpu::SLA(ByteRegister&)
SLAv(value, f) ==
    LET carry == BitAnd(value, 128)
        result == U8(value * 2)
    IN Res(result, Flags4(f, result = 0, FALSE, FALSE, carry # 0))

\* Cpu::SRA(ByteRegister&)
SRAv(value, f) ==
    LET carry == BitAnd(value, 1)
        b7 == BitAnd(value, 128)
        result == U8(BitOr(value \div 2, b7))
    IN Res(result, Flags4(f, result = 0, FALSE, FALSE, carry # 0))

\* mutant of SWAP: the high nibble is masked with 0xE0
SWAPv_Mask(value, f) ==
    LET result == U8(BitOr(BitAnd(value, 224) \div 16, BitAnd(value, 15) * 16))
    IN Res(result, Flags4(f, result = 0, FALSE, FALSE, FALSE))

\* Cpu::SWAP(ByteRegister&)
SWAPv(value, f) ==
    LET result == U8(BitOr(BitAnd(value, 240) \div 16, BitAnd(value, 15) * 16))
    IN Res(result, Flags4(f, result = 0, FALSE, FALSE, FALSE))

\* Cpu::SRL(ByteRegister&)
SRLv(value, f) ==
    LET carry == BitAnd(value, 1)
        result == U8(value \div 2)
    IN Res(result, Flags4(f, result = 0, FALSE, FALSE, carry # 0))

\* mutant of BIT: the carry is cleared, as the rotates' flag pattern does
BITv_ClearCarry(bit, value, f) ==
    Res(value, Flags4(f, BitAnd(value, 2 ^ bit) = 0, FALSE, TRUE, FALSE))

\* Cpu::BIT(int, ByteRegister const&): Z, N and H only; the byte is left alone
BITv(bit, value, f) ==
    Res(value, Flags3(f, BitAnd(value, 2 ^ bit) = 0, FALSE, TRUE))

\* Cpu::RES(int, ByteRegister&): value & ~(1u << bit), narrowed to a byte
RESv(bit, value, f) == Res(U8(BitAnd(value, BitNot8(2 ^ bit))), f)

\* mutant of SET: the bit is toggled
SETv_Toggle(bit, value, f) == Res(U8(BitXor(value, 2 ^ bit)), f)

\* Cpu::SET(int, ByteRegister&)
SETv(bit, value, f) == Res(U8(BitOr(value, 2 ^ bit)), f)

\* the operation selected by the second byte of a CB-prefixed instruction,
\* in the order of the table: 0x00 RLC, 0x08 RRC, 0x10 RL, 0x18 RR, 0x20 SLA,
\* 0x28 SRA, 0x30 SWAP, 0x38 SRL, 0x40 BIT n, 0x80 RES n, 0xC0 SET n
CBv(offset, value, f) ==
    LET k == offset \div 8
        bit == k % 8
    IN CASE k = 0 -> RLCv(value, f)
         [] k = 1 -> RRCv(value, f)
         [] k = 2 -> RLv(value, f)
         [] k = 3 -> RRv(value, f)
         [] k = 4 -> SLAv(value, f)
         [] k = 5 -> SRAv(value, f)
         [] k = 6 -> SWAPv(value, f)
         [] k = 7 -> SRLv(value, f)
         [] k \in 8..15 -> BITv(bit, value, f)
         [] k \in 16..23 -> RESv(bit, value, f)
         [] k \in 24..31 -> SETv(bit, value, f)

\* the register operand of an opcode: B_, C_, D_, E_, H_, L_, (HL), A_
R8 == <<"B", "C", "D", "E", "H", "L", "(HL)", "A">>

\* mutant of BIT_Address: the byte is written back, as the other (HL) forms do
BIT_Address_WriteBack(m, bit, address) ==
    LET m1 == read(m, address)
        x == BITv(bit, m1.val, m1.cpu.F)
    IN noexcept(write(SetF(m1, x.f), address, x.v))

\* Cpu::BIT(int, Address): read only
BIT_Address(m, bit, address) ==
    LET m1 == read(m, address)
    IN noexcept(SetF(m1, BITv(bit, m1.val, m1.cpu.F).f))

\* Cpu::RLC(Address) ... Cpu::SET(int, Address):
\*   auto reg = ByteRegister(read(address)); OP(reg); write(address, reg())
CB_Address(m, offset, address) ==
    LET m1 == read(m, address)
        x == CBv(offset, m1.val, m1.cpu.F)
    IN noexcept(write(SetF(m1, x.f), address, x.v))

\* mutant of executeExtended: the SET 7 row (0xCBF8..0xCBFF) is missing
executeExtended_NoSet7(m, opcode) ==
    LET offset == opcode % 256
        r == R8[(offset % 8) + 1]
    IN IF opcode \div 256 # 203 \/ ~(offset \in 0..247)
       THEN Throw(m, "notimpl", opcode)
       ELSE IF r = "(HL)"
            THEN IF offset \in 64..127
                 THEN BIT_Address(m, (offset \div 8) % 8, HL(m))
                 ELSE CB_Address(m, offset, HL(m))
            ELSE Store(m, r, CBv(offset, m.cpu[r], m.cpu.F))

\* Cpu::executeExtended: one case per opcode 0xCB00..0xCBFF; the default
\* throws OpcodeNotImplementedException
executeExtended(m, opcode) ==
    LET offset == opcode % 256
        r == R8[(offset % 8) + 1]
    IN IF opcode \div 256 # 203 \/ ~(offset \in 0..255)
       THEN Throw(m, "notimpl", opcode)
       ELSE IF r = "(HL)"
            THEN IF offset \in 64..127
                 THEN BIT_Address(m, (offset \div 8) % 8, HL(m))
                 ELSE CB_Address(m, offset, HL(m))
            ELSE Store(m, r, CBv(offset, m.cpu[r], m.cpu.F))

-----------------------------------------------------------------------------
(* Bodies of the primary table that are written out in their case *)

\* case 0x01 / 0x11 / 0x21: rr.lower() = readNext...; rr.upper() = readNext...
LD_rr_nn(m, regPair) ==
    LET m1 == readNextByteAndAdvance(m)
        m2 == SetReg(m1, lower(regPair), m1.val)
        m3 == readNextByteAndAdvance(m2)
    IN SetReg(m3, upper(regPair), m3.val)

\* case 0x31: SP_.setLower(readNext...); SP_.setUpper(readNext...)
LD_SP_nn(m) ==
    LET m1 == readNextByteAndAdvance(m)
        m2 == SetReg(m1, "SP", setLower(m1.cpu.SP, m1.val))
        m3 == readNextByteAndAdvance(m2)
    IN SetReg(m3, "SP", setUpper(m3.cpu.SP, m3.val))

\* mutant of LD (nn),SP: the second address is nn + 1, not narrowed to 16 bits
LD_nn_SP_NoWrap(m) ==
    LET m1 == readNextByteAndAdvance(m)
        lo == m1.val
        m2 == readNextByteAndAdvance(m1)
        hi == m2.val
        address == BitOr(hi * 256, lo)
        m3 == write(m2, address, getLower(m2.cpu.SP))
    IN write(m3, address + 1, getUpper(m3.cpu.SP))

\* case 0x08: LD (nn),SP
LD_nn_SP(m) ==
    LET m1 == readNextByteAndAdvance(m)
        lo == m1.val
        m2 == readNextByteAndAdvance(m1)
        hi == m2.val
        address == BitOr(hi * 256, lo)
        m3 == write(m2, address, getLower(m2.cpu.SP))
    IN write(m3, U16(address + 1), getUpper(m3.cpu.SP))

\* HL_.lower() = getLower(value); HL_.upper() = getUpper(value)
SetHL(m, value) == SetReg(SetReg(m, "L", getLower(value)), "H", getUpper(value))

\* case 0x22 (delta 1) / 0x32 (delta -1): HL is updated, then write(old HL, A)
LD_HLx_A(m, delta) ==
    LET address == HL(m)
        value == U16(HL(m) + delta)
        m1 == SetHL(m, value)
    IN write(m1, address, m1.cpu.A)

\* case 0x2A (delta 1) / 0x3A (delta -1): HL is updated, then A_ = read(old HL)
LD_A_HLx(m, delta) ==
    LET address == HL(m)
        value == U16(HL(m) + delta)
        m1 == read(SetHL(m, value), address)
    IN SetReg(m1, "A", m1.val)

\* r = read(address)
LoadFrom(m, r, address) ==
    LET m1 == read(m, address) IN SetReg(m1, r, m1.val)

\* r = readNextByteAndAdvance()
LoadImm(m, r) ==
    LET m1 == readNextByteAndAdvance(m) IN SetReg(m1, r, m1.val)

\* case 0x34: reg = ByteRegister(read(HL)); INC(reg); write(HL, reg())
INC_HL(m) ==
    LET address == HL(m)
        m1 == read(m, address)
        x == INCv(m1.val, m1.cpu.F)
    IN write(SetF(m1, x.f), address, x.v)

\* case 0x35
DEC_HL(m) ==
    LET address == HL(m)
        m1 == read(m, address)
        x == DECv(m1.val, m1.cpu.F)
    IN write(SetF(m1, x.f), address, x.v)

\* case 0x36: value = readNext...; write(HL, value)
LD_HL_n(m) ==
    LET m1 == readNextByteAndAdvance(m) IN write(m1, HL(m1), m1.val)

\* case 0x07 RLCA, 0x0F RRCA, 0x17 RLA, 0x1F RRA: as the CB rotates, Z forced 0
RLCA(m) ==
    LET value == m.cpu.A
        carry == BitAnd(value, 128)
        result == U8(BitOr(value * 2, carry \div 128))
    IN Store(m, "A", Res(result, Flags4(m.cpu.F, FALSE, FALSE, FALSE, carry # 0)))

RRCA(m) ==
    LET value == m.cpu.A
        carry == BitAnd(value, 1)
        result == U8(BitOr(value \div 2, carry * 128))
    IN Store(m, "A", Res(result, Flags4(m.cpu.F, FALSE, FALSE, FALSE, carry # 0)))

RLA(m) ==
    LET value == m.cpu.A
        carry == BitAnd(value, 128)
        result == U8(BitOr(value * 2, CarryBit(m.cpu.F)))
    IN Store(m, "A", Res(result, Flags4(m.cpu.F, FALSE, FALSE, FALSE, carry # 0)))

RRA(m) ==
    LET value == m.cpu.A
        carry == BitAnd(value, 1)
        result == U8(BitOr(value \div 2, CarryBit(m.cpu.F) * 128))
    IN Store(m, "A", Res(result, Flags4(m.cpu.F, FALSE, FALSE, FALSE, carry # 0)))

\* mutant of DAA: the 0x99 test is made on A after the low fix was added
DAA_HighAfterLow(m) ==
    LET f == m.cpu.F
        a == m.cpu.A
        h == IF isSet(f, HALF_CARRY) THEN 1 ELSE 0
        c == IF isSet(f, CARRY) THEN 1 ELSE 0
        subShift == U8((6 * h) + (96 * c))
        lowFix == IF isSet(f, HALF_CARRY) \/ BitAnd(a, 15) > 9 THEN 6 ELSE 0
        highFix == isSet(f, CARRY) \/ (a + lowFix) > 153
        addShift == U8(lowFix + (IF highFix THEN 96 ELSE 0))
        f1 == IF ~isSet(f, NEGATIVE) /\ highFix THEN setFlag(f, CARRY, TRUE) ELSE f
        extendedResult == IF isSet(f, NEGATIVE) THEN U16(a - subShift)
                          ELSE U16(a + addShift)
        result == getLower(extendedResult)
        m1 == SetReg(SetF(m, f1), "A", result)
        m2 == SetFlag(m1, ZERO, result = 0)
    IN SetFlag(m2, HALF_CARRY, FALSE)

\* mutant of DAA: the low fix after an addition ignores the H flag
DAA_IgnoreHalf(m) ==
    LET f == m.cpu.F
        a == m.cpu.A
        h == IF isSet(f, HALF_CARRY) THEN 1 ELSE 0
        c == IF isSet(f, CARRY) THEN 1 ELSE 0
        subShift == U8((6 * h) + (96 * c))
        lowFix == IF BitAnd(a, 15) > 9 THEN 6 ELSE 0
        highFix == isSet(f, CARRY) \/ a > 153
        addShift == U8(lowFix + (IF highFix THEN 96 ELSE 0))
        f1 == IF ~isSet(f, NEGATIVE) /\ highFix THEN setFlag(f, CARRY, TRUE) ELSE f
        extendedResult == IF isSet(f, NEGATIVE) THEN U16(a - subShift)
                          ELSE U16(a + addShift)
        result == getLower(extendedResult)
        m1 == SetReg(SetF(m, f1), "A", result)
        m2 == SetFlag(m1, ZERO, result = 0)
    IN SetFlag(m2, HALF_CARRY, FALSE)

\* case 0x27 DAA
DAA(m) ==
    LET f == m.cpu.F
        a == m.cpu.A
        h == IF isSet(f, HALF_CARRY) THEN 1 ELSE 0
        c == IF isSet(f, CARRY) THEN 1 ELSE 0
        subShift == U8((6 * h) + (96 * c))
        lowFix == IF isSet(f, HALF_CARRY) \/ BitAnd(a, 15) > 9 THEN 6 ELSE 0
        highFix == isSet(f, CARRY) \/ a > 153
        addShift == U8(lowFix + (IF highFix THEN 96 ELSE 0))
        f1 == IF ~isSet(f, NEGATIVE) /\ highFix THEN setFlag(f, CARRY, TRUE) ELSE f
        extendedResult == IF isSet(f, NEGATIVE) THEN U16(a - subShift)
                          ELSE U16(a + addShift)
        result == getLower(extendedResult)
        m1 == SetReg(SetF(m, f1), "A", result)
        m2 == SetFlag(m1, ZERO, result = 0)
    IN SetFlag(m2, HALF_CARRY, FALSE)

\* case 0x2F CPL
CPL(m) ==
    SetFlag(SetFlag(SetReg(m, "A", BitNot8(m.cpu.A)), NEGATIVE, TRUE), HALF_CARRY, TRUE)

\* case 0x37 SCF
SCF(m) ==
    SetFlag(SetFlag(SetFlag(m, NEGATIVE, FALSE), HALF_CARRY, FALSE), CARRY, TRUE)

\* case 0x3F CCF
CCF(m) ==
    LET m1 == SetFlag(SetFlag(m, NEGATIVE, FALSE), HALF_CARRY, FALSE)
    IN SetF(m1, toggleFlag(m1.cpu.F, CARRY))

\* mutant of STOP / HALT: a single internal tick
TwoTicks_One(m) == tick(m)

\* case 0x10 STOP and case 0x76 HALT: tick(); tick()
TwoTicks(m) == tick(tick(m))

\* the flag arithmetic shared by case 0xE8 and case 0xF8.  shift is an
\* int8_t promoted to int; only bits 4 and 8 of the xor are used, so the
\* xor is taken on the low 16 bits of the two's complement values
\* mutant of SPe: the carry is the one out of bit 15 of the signed sum
SPe_WideCarry(oldValue, shift) ==
    LET extendedResult == oldValue + shift
        result == U16(extendedResult)
        x == BitXor(BitXor(oldValue, U16(shift)), U16(extendedResult))
    IN [result |-> result,
        h |-> BitAnd(x, 16) = 16,
        c |-> extendedResult > 65535 \/ extendedResult < 0]

SPe(oldValue, shift) ==
    LET extendedResult == oldValue + shift
        result == U16(extendedResult)
        x == BitXor(BitXor(oldValue, U16(shift)), U16(extendedResult))
    IN [result |-> result,
        h |-> BitAnd(x, 16) = 16,
        c |-> BitAnd(x, 256) = 256]

\* mutant of ADD_SP_e: a single internal tick
ADD_SP_e_OneTick(m) ==
    LET m1 == readNextByteAndAdvance(m)
        r == SPe(m1.cpu.SP, Int8(m1.val))
        m2 == tick(m1)
        m3 == SetReg(m2, "SP", setLower(m2.cpu.SP, BitAnd(r.result, 255)))
        m5 == SetReg(m3, "SP", setUpper(m3.cpu.SP, BitAnd(r.result \div 256, 255)))
    IN SetF(m5, Flags4(m5.cpu.F, FALSE, FALSE, r.h, r.c))

\* case 0xE8 ADD SP,e
ADD_SP_e(m) ==
    LET m1 == readNextByteAndAdvance(m)
        r == SPe(m1.cpu.SP, Int8(m1.val))
        m2 == tick(m1)
        m3 == SetReg(m2, "SP", setLower(m2.cpu.SP, BitAnd(r.result, 255)))
        m4 == tick(m3)
        m5 == SetReg(m4, "SP", setUpper(m4.cpu.SP, BitAnd(r.result \div 256, 255)))
    IN SetF(m5, Flags4(m5.cpu.F, FALSE, FALSE, r.h, r.c))

\* case 0xF8 LD HL,SP+e
LD_HL_SP_e(m) ==
    LET m1 == readNextByteAndAdvance(m)
        r == SPe(m1.cpu.SP, Int8(m1.val))
        m2 == tick(SetReg(m1, "L", BitAnd(r.result, 255)))
        m3 == SetReg(m2, "H", BitAnd(r.result \div 256, 255))
    IN SetF(m3, Flags4(m3.cpu.F, FALSE, FALSE, r.h, r.c))

\* mutant of POP AF: the low byte is masked with 0x0F
POP_AF_MaskLow(m) ==
    LET addrLo == m.cpu.SP
        m1 == read(SetReg(m, "SP", U16(m.cpu.SP + 1)), addrLo)
        lo == m1.val
        m2 == SetReg(m1, lower(AF_), BitAnd(lo, 15))
        addrHi == m2.cpu.SP
        m3 == read(SetReg(m2, "SP", U16(m2.cpu.SP + 1)), addrHi)
    IN SetReg(m3, upper(AF_), m3.val)

\* mutant of POP AF: the low byte is stored unmasked, as POP rr does
POP_AF_NoMask(m) ==
    LET addrLo == m.cpu.SP
        m1 == read(SetReg(m, "SP", U16(m.cpu.SP + 1)), addrLo)
        m2 == SetReg(m1, lower(AF_), m1.val)
        addrHi == m2.cpu.SP
        m3 == read(SetReg(m2, "SP", U16(m2.cpu.SP + 1)), addrHi)
    IN SetReg(m3, upper(AF_), m3.val)

\* case 0xF1 POP AF, written out in execute (not through Cpu::POP)
POP_AF(m) ==
    LET addrLo == m.cpu.SP
        m1 == read(SetReg(m, "SP", U16(m.cpu.SP + 1)), addrLo)
        lo == m1.val
        m2 == SetReg(m1, lower(AF_), BitAnd(lo, 240))
        addrHi == m2.cpu.SP
        m3 == read(SetReg(m2, "SP", U16(m2.cpu.SP + 1)), addrHi)
    IN SetReg(m3, upper(AF_), m3.val)

\* case 0xE0 / 0xE2: write(Address(0xFF00 + offset), A())
LDH_n_A(m) ==
    LET m1 == readNextByteAndAdvance(m) IN write(m1, 65280 + m1.val, m1.cpu.A)

\* case 0xF0: A_ = read(Address(0xFF00 + offset))
LDH_A_n(m) ==
    LET m1 == readNextByteAndAdvance(m) IN LoadFrom(m1, "A", 65280 + m1.val)

\* case 0xEA: write(Address((hi << 8) | lo), A())
LD_nn_A(m) ==
    LET m1 == readNextByteAndAdvance(m)
        lo == m1.val
        m2 == readNextByteAndAdvance(m1)
        hi == m2.val
    IN write(m2, BitOr(hi * 256, lo), m2.cpu.A)

\* case 0xFA
LD_A_nn(m) ==
    LET m1 == readNextByteAndAdvance(m)
        lo == m1.val
        m2 == readNextByteAndAdvance(m1)
        hi == m2.val
    IN LoadFrom(m2, "A", BitOr(hi * 256, lo))

\* value = readNextByteAndAdvance(); OP(A_, value)   (0xC6, 0xCE, ..., 0xFE)
ALU_n(m, k) ==
    LET m1 == readNextByteAndAdvance(m) IN ALU(m1, k, m1.val)

\* value = read(Address(HL())); OP(A_, value)   (0x86, 0x8E, ..., 0xBE)
ALU_HL(m, k) ==
    LET m1 == read(m, HL(m)) IN ALU(m1, k, m1.val)

\* case 0xCB: the second byte is read at PC, then executeExtended
PREFIX(m, opcode) ==
    LET prefixPart == opcode
        m1 == readNextByteAndAdvance(m)
        offsetPart == m1.val
        extendedOpcode == BitOr(prefixPart * 256, offsetPart)
    IN IF Ok(m1) THEN executeExtended(m1, extendedOpcode) ELSE m1

-----------------------------------------------------------------------------
(* Cpu::execute, the primary table *)

\* cases 0x00 .. 0x3F
execute_00_3F(m, opcode) ==
    CASE opcode = 0   -> m                                        \* 0x00
      [] opcode = 1   -> LD_rr_nn(m, BC_)                         \* 0x01
      [] opcode = 2   -> write(m, BC(m), m.cpu.A)                 \* 0x02
      [] opcode = 3   -> INC_Pair(m, BC_)                         \* 0x03
      [] opcode = 4   -> INC(m, "B")                              \* 0x04
      [] opcode = 5   -> DEC(m, "B")                              \* 0x05
      [] opcode = 6   -> LoadImm(m, "B")                          \* 0x06
      [] opcode = 7   -> RLCA(m)                                  \* 0x07
      [] opcode = 8   -> LD_nn_SP(m)                              \* 0x08
      [] opcode = 9   -> ADD_Pair(m, HL_, BC(m))                  \* 0x09
      [] opcode = 10  -> LoadFrom(m, "A", BC(m))                  \* 0x0A
      [] opcode = 11  -> DEC_Pair(m, BC_)                         \* 0x0B
      [] opcode = 12  -> INC(m, "C")                              \* 0x0C
      [] opcode = 13  -> DEC(m, "C")                              \* 0x0D
      [] opcode = 14  -> LoadImm(m, "C")                          \* 0x0E
      [] opcode = 15  -> RRCA(m)                                  \* 0x0F
      [] opcode = 16  -> TwoTicks(m)                              \* 0x10
      [] opcode = 17  -> LD_rr_nn(m, DE_)                         \* 0x11
      [] opcode = 18  -> write(m, DE(m), m.cpu.A)                 \* 0x12
      [] opcode = 19  -> INC_Pair(m, DE_)                         \* 0x13
      [] opcode = 20  -> INC(m, "D")                              \* 0x14
      [] opcode = 21  -> DEC(m, "D")                              \* 0x15
      [] opcode = 22  -> LoadImm(m, "D")                          \* 0x16
      [] opcode = 23  -> RLA(m)                                   \* 0x17
      [] opcode = 24  -> JR(m, TRUE)                              \* 0x18
      [] opcode = 25  -> ADD_Pair(m, HL_, DE(m))                  \* 0x19
      [] opcode = 26  -> LoadFrom(m, "A", DE(m))                  \* 0x1A
      [] opcode = 27  -> DEC_Pair(m, DE_)                         \* 0x1B
      [] opcode = 28  -> INC(m, "E")                              \* 0x1C
      [] opcode = 29  -> DEC(m, "E")                              \* 0x1D
      [] opcode = 30  -> LoadImm(m, "E")                          \* 0x1E
      [] opcode = 31  -> RRA(m)                                   \* 0x1F
      [] opcode = 32  -> JR(m, ~isSet(m.cpu.F, ZERO))             \* 0x20
      [] opcode = 33  -> LD_rr_nn(m, HL_)                         \* 0x21
      [] opcode = 34  -> LD_HLx_A(m, 1)                           \* 0x22
      [] opcode = 35  -> INC_Pair(m, HL_)                         \* 0x23
      [] opcode = 36  -> INC(m, "H")                              \* 0x24
      [] opcode = 37  -> DEC(m, "H")                              \* 0x25
      [] opcode = 38  -> LoadImm(m, "H")                          \* 0x26
      [] opcode = 39  -> DAA(m)                                   \* 0x27
      [] opcode = 40  -> JR(m, isSet(m.cpu.F, ZERO))              \* 0x28
      [] opcode = 41  -> ADD_Pair(m, HL_, HL(m))                  \* 0x29
      [] opcode = 42  -> LD_A_HLx(m, 1)                           \* 0x2A
      [] opcode = 43  -> DEC_Pair(m, HL_)                         \* 0x2B
      [] opcode = 44  -> INC(m, "L")                              \* 0x2C
      [] opcode = 45  -> DEC(m, "L")                              \* 0x2D
      [] opcode = 46  -> LoadImm(m, "L")                          \* 0x2E
      [] opcode = 47  -> CPL(m)                                   \* 0x2F
      [] opcode = 48  -> JR(m, ~isSet(m.cpu.F, CARRY))            \* 0x30
      [] opcode = 49  -> LD_SP_nn(m)                              \* 0x31
      [] opcode = 50  -> LD_HLx_A(m, -1)                          \* 0x32
      [] opcode = 51  -> INC_Short(m, "SP")                       \* 0x33
      [] opcode = 52  -> INC_HL(m)                                \* 0x34
      [] opcode = 53  -> DEC_HL(m)                                \* 0x35
      [] opcode = 54  -> LD_HL_n(m)                               \* 0x36
      [] opcode = 55  -> SCF(m)                                   \* 0x37
      [] opcode = 56  -> JR(m, isSet(m.cpu.F, CARRY))             \* 0x38
      [] opcode = 57  -> ADD_Pair(m, HL_, m.cpu.SP)               \* 0x39
      [] opcode = 58  -> LD_A_HLx(m, -1)                          \* 0x3A
      [] opcode = 59  -> DEC_Short(m, "SP")                       \* 0x3B
      [] opcode = 60  -> INC(m, "A")                              \* 0x3C
      [] opcode = 61  -> DEC(m, "A")                              \* 0x3D
      [] opcode = 62  -> LoadImm(m, "A")                          \* 0x3E
      [] opcode = 63  -> CCF(m)                                   \* 0x3F
      [] OTHER -> Throw(m, "notimpl", opcode)

\* cases 0x40 .. 0x7F: LD r,r' / LD r,(HL) / LD (HL),r, and 0x76 HALT.
\* The destination is R8[(opcode - 0x40) / 8], the source R8[opcode % 8]
execute_40_7F(m, opcode) ==
    LET dst == R8[((opcode - 64) \div 8) + 1]
        src == R8[(opcode % 8) + 1]
    IN CASE opcode = 118 -> TwoTicks(m)
         [] opcode # 118 /\ dst = "(HL)" -> write(m, HL(m), m.cpu[src])
         [] opcode # 118 /\ dst # "(HL)" /\ src = "(HL)" -> LoadFrom(m, dst, HL(m))
         [] OTHER -> SetReg(m, dst, m.cpu[src])

\* cases 0x80 .. 0xBF: ADD, ADC, SUB, SBC, AND, XOR, OR, CP of A_ with R8[opcode % 8]
execute_80_BF(m, opcode) ==
    LET k == (opcode - 128) \div 8
        src == R8[(opcode % 8) + 1]
    IN IF src = "(HL)" THEN ALU_HL(m, k) ELSE ALU(m, k, m.cpu[src])

\* cases 0xC0 .. 0xFF
execute_C0_FF(m, opcode) ==
    CASE opcode = 192 -> RET_cc(m, ~isSet(m.cpu.F, ZERO))         \* 0xC0
      [] opcode = 193 -> POP(m, BC_)                              \* 0xC1
      [] opcode = 194 -> JP(m, ~isSet(m.cpu.F, ZERO))             \* 0xC2
      [] opcode = 195 -> JP(m, TRUE)                              \* 0xC3
      [] opcode = 196 -> CALL(m, ~isSet(m.cpu.F, ZERO))           \* 0xC4
      [] opcode = 197 -> PUSH(m, BC_)                             \* 0xC5
      [] opcode = 198 -> ALU_n(m, 0)                              \* 0xC6
      [] opcode = 199 -> RST(m, 0)                                \* 0xC7
      [] opcode = 200 -> RET_cc(m, isSet(m.cpu.F, ZERO))          \* 0xC8
      [] opcode = 201 -> RET(m)                                   \* 0xC9
      [] opcode = 202 -> JP(m, isSet(m.cpu.F, ZERO))              \* 0xCA
      [] opcode = 203 -> PREFIX(m, opcode)                        \* 0xCB
      [] opcode = 204 -> CALL(m, isSet(m.cpu.F, ZERO))            \* 0xCC
      [] opcode = 205 -> CALL(m, TRUE)                            \* 0xCD
      [] opcode = 206 -> ALU_n(m, 1)                              \* 0xCE
      [] opcode = 207 -> RST(m, 8)                                \* 0xCF
      [] opcode = 208 -> RET_cc(m, ~isSet(m.cpu.F, CARRY))        \* 0xD0
      [] opcode = 209 -> POP(m, DE_)                              \* 0xD1
      [] opcode = 210 -> JP(m, ~isSet(m.cpu.F, CARRY))            \* 0xD2
      [] opcode = 211 -> Throw(m, "illegal", opcode)              \* 0xD3
      [] opcode = 212 -> CALL(m, ~isSet(m.cpu.F, CARRY))          \* 0xD4
      [] opcode = 213 -> PUSH(m, DE_)                             \* 0xD5
      [] opcode = 214 -> ALU_n(m, 2)                              \* 0xD6
      [] opcode = 215 -> RST(m, 16)                               \* 0xD7
      [] opcode = 216 -> RET_cc(m, isSet(m.cpu.F, CARRY))         \* 0xD8
      [] opcode = 217 -> RET(m)                                   \* 0xD9
      [] opcode = 218 -> JP(m, isSet(m.cpu.F, CARRY))             \* 0xDA
      [] opcode = 219 -> Throw(m, "illegal", opcode)              \* 0xDB
      [] opcode = 220 -> CALL(m, isSet(m.cpu.F, CARRY))           \* 0xDC
      [] opcode = 221 -> Throw(m, "illegal", opcode)              \* 0xDD
      [] opcode = 222 -> ALU_n(m, 3)                              \* 0xDE
      [] opcode = 223 -> RST(m, 24)                               \* 0xDF
      [] opcode = 224 -> LDH_n_A(m)                               \* 0xE0
      [] opcode = 225 -> POP(m, HL_)                              \* 0xE1
      [] opcode = 226 -> write(m, 65280 + m.cpu.C, m.cpu.A)       \* 0xE2
      [] opcode = 227 -> Throw(m, "illegal", opcode)              \* 0xE3
      [] opcode = 228 -> Throw(m, "illegal", opcode)              \* 0xE4
      [] opcode = 229 -> PUSH(m, HL_)                             \* 0xE5
      [] opcode = 230 -> ALU_n(m, 4)                              \* 0xE6
      [] opcode = 231 -> RST(m, 32)                               \* 0xE7
      [] opcode = 232 -> ADD_SP_e(m)                              \* 0xE8
      [] opcode = 233 -> SetReg(m, "PC", HL(m))                   \* 0xE9
      [] opcode = 234 -> LD_nn_A(m)                               \* 0xEA
      [] opcode = 235 -> Throw(m, "illegal", opcode)              \* 0xEB
      [] opcode = 236 -> Throw(m, "illegal", opcode)              \* 0xEC
      [] opcode = 237 -> Throw(m, "illegal", opcode)              \* 0xED
      [] opcode = 238 -> ALU_n(m, 5)                              \* 0xEE
      [] opcode = 239 -> RST(m, 40)                               \* 0xEF
      [] opcode = 240 -> LDH_A_n(m)                               \* 0xF0
      [] opcode = 241 -> POP_AF(m)                                \* 0xF1
      [] opcode = 242 -> LoadFrom(m, "A", 65280 + m.cpu.C)        \* 0xF2
      [] opcode = 243 -> m                                        \* 0xF3
      [] opcode = 244 -> Throw(m, "illegal", opcode)              \* 0xF4
      [] opcode = 245 -> PUSH(m, AF_)                             \* 0xF5
      [] opcode = 246 -> ALU_n(m, 6)                              \* 0xF6
      [] opcode = 247 -> RST(m, 48)                               \* 0xF7
      [] opcode = 248 -> LD_HL_SP_e(m)                            \* 0xF8
      [] opcode = 249 -> SetReg(tick(m), "SP", HL(m))             \* 0xF9
      [] opcode = 250 -> LD_A_nn(m)                               \* 0xFA
      [] opcode = 251 -> m                                        \* 0xFB
      [] opcode = 252 -> Throw(m, "illegal", opcode)              \* 0xFC
      [] opcode = 253 -> Throw(m, "illegal", opcode)              \* 0xFD
      [] opcode = 254 -> ALU_n(m, 7)                              \* 0xFE
      [] opcode = 255 -> RST(m, 56)                               \* 0xFF
      [] OTHER -> Throw(m, "notimpl", opcode)

\* mutant of execute: case 0xD3 falls through as a no-op instead of throwing
execute_D3Nop(m, opcode) ==
    CASE opcode \in 0..63 -> execute_00_3F(m, opcode)
      [] opcode \in 64..127 -> execute_40_7F(m, opcode)
      [] opcode \in 128..191 -> execute_80_BF(m, opcode)
      [] opcode = 211 -> m
      [] opcode \in (192..255) \ {211} -> execute_C0_FF(m, opcode)
      [] OTHER -> Throw(m, "notimpl", opcode)

\* Cpu::execute(std::uint8_t opcode)
execute(m, opcode) ==
    CASE opcode \in 0..63 -> execute_00_3F(m, opcode)
      [] opcode \in 64..127 -> execute_40_7F(m, opcode)
      [] opcode \in 128..191 -> execute_80_BF(m, opcode)
      [] opcode \in 192..255 -> execute_C0_FF(m, opcode)
      [] OTHER -> Throw(m, "notimpl", opcode)

\* Cpu::step: opcode = readNextByteAndAdvance(); execute(opcode)
step(m) ==
    LET m1 == readNextByteAndAdvance(m)
    IN IF Ok(m1) THEN execute(m1, m1.val) ELSE m1

\* mutant of reset: SP is assigned from the snapshot's PC
reset_SPFromPC(state) ==
    [r \in RegNames |-> RegisterAssign(IF r = "SP" THEN state.PC ELSE state[r])]

\* Cpu::reset(CpuState const&): every register is assigned from the snapshot
reset(state) ==
    [r \in RegNames |-> RegisterAssign(state[r])]

\* CpuState{}: every field defaults to 0
CpuStateDefault == [r \in RegNames |-> 0]

-----------------------------------------------------------------------------
(* Test cases: what the harness installs before it calls step *)

\* register presets (F is chosen separately)
Preset(p) ==
    CASE p = 1 -> [A |-> 18, B |-> 52, C |-> 86, D |-> 120, E |-> 154, F |-> 0,
                   H |-> 192, L |-> 0, SP |-> 65534, PC |-> 256]
      [] p = 2 -> [A |-> 255, B |-> 255, C |-> 255, D |-> 0, E |-> 0, F |-> 0,
                   H |-> 127, L |-> 255, SP |-> 1, PC |-> 65534]
      [] p = 3 -> [A |-> 0, B |-> 0, C |-> 1, D |-> 128, E |-> 15, F |-> 0,
                   H |-> 255, L |-> 255, SP |-> 65535, PC |-> 16384]
      [] p = 4 -> [A |-> 128, B |-> 1, C |-> 0, D |-> 255, E |-> 254, F |-> 0,
                   H |-> 0, L |-> 255, SP |-> 0, PC |-> 256]
      [] p = 5 -> [A |-> 1, B |-> 2, C |-> 3, D |-> 4, E |-> 5, F |-> 0,
                   H |-> 6, L |-> 7, SP |-> 258, PC |-> 256]

Presets == 1..3
StackPresets == 1..5

\* values of F given to reset: every combination of Z and C, and two values
\* with bits 0..3 set
FValues == {0, 16, 128, 240, 15, 106}

\* operand bytes that follow the opcode, and the data bytes found at (HL),
\* (SP) and (SP+1)
Variant(k) ==
    CASE k = 1 -> [n1 |-> 0,   n2 |-> 0,   d |-> 0,   d2 |-> 0]
      [] k = 2 -> [n1 |-> 5,   n2 |-> 192, d |-> 15,  d2 |-> 18]
      [] k = 3 -> [n1 |-> 254, n2 |-> 255, d |-> 255, d2 |-> 255]
      [] k = 4 -> [n1 |-> 128, n2 |-> 18,  d |-> 128, d2 |-> 64]

Variants == 1..4

\* the addresses at which the bus of a case throws (none for the OpenBus)
FaultAt(st, flt) ==
    CASE flt = 0 -> {}
      [] flt = 1 -> {st.PC}
      [] flt = 2 -> {U16(st.PC + 1)}
      [] flt = 3 -> {PairValue(st.H, st.L)}
      [] flt = 4 -> {st.SP}
      [] flt = 5 -> {U16(st.SP - 1)}

Faults == 1..5

\* a test case: the CpuState given to reset and the initial.ram slots, in
\* the order the harness writes them
TestCase(p, f, op, n1, k, flt) ==
    LET st == [Preset(p) EXCEPT !.F = f]
        v == Variant(k)
        hl == PairValue(st.H, st.L)
    IN [cpuState |-> st,
        ram |-> << <<hl, v.d>>, <<st.SP, v.d>>, <<U16(st.SP + 1), v.d2>>,
                   <<st.PC, op>>, <<U16(st.PC + 1), n1>>, <<U16(st.PC + 2), v.n2>> >>,
        bad |-> FaultAt(st, flt)]

\* the parameters <<p, f, op, n1, k, flt>> of the cases: every first byte
\* with a few operands, and every second byte after 0xCB
Tests ==
    {<<p, f, op, Variant(k).n1, k, 0>> :
        p \in Presets, f \in FValues, op \in Byte \ {203}, k \in Variants}
    \cup
    {<<p, f, 203, n1, (n1 % 4) + 1, 0>> :
        p \in Presets, f \in FValues, n1 \in Byte}

\* PUSH rr (0xC5, 0xD5, 0xE5, 0xF5) followed by POP rr (0xC1, 0xD1, 0xE1, 0xF1)
PushOpcodes == {197, 213, 229, 245}
PopOpcodes == {193, 209, 225, 241}

StackTests ==
    {<<p, f, push, pop, k, 0>> :
        p \in StackPresets, f \in FValues, push \in PushOpcodes,
        pop \in PopOpcodes, k \in Variants}

\* every first byte on a bus that throws at one address
FaultTests ==
    {<<p, f, op, Variant(k).n1, k, flt>> :
        p \in {1}, f \in {0, 144}, op \in Byte, k \in {2}, flt \in Faults}

\* bus.reset(); for (slot : initial.ram) bus.write(slot.address, slot.value)
RECURSIVE WriteRam(_, _)
WriteRam(b, ram) ==
    IF ram = <<>> THEN b
    ELSE WriteRam([mem |-> MemPut(b.mem, Head(ram)[1], Head(ram)[2]),
                   last |-> [address |-> Head(ram)[1], data |-> Head(ram)[2],
                             accessMode |-> "WRITE"]],
                  Tail(ram))

-----------------------------------------------------------------------------
(* The state machine *)

NoMem == [a \in {} |-> 0]
NoErr == [kind |-> "none", opcode |-> 0]

Machine ==
    [cpu |-> cpu, mem |-> memory_, last |-> lastMemoryAccess_, bad |-> bad,
     val |-> 0, cycles |-> <<>>, err |-> "none", errOpcode |-> 0,
     onTick |-> TRUE]

Ticks(cyc) == Cardinality({i \in DOMAIN cyc : cyc[i].kind = "tick"})

\* OpenBus() and Cpu(&bus): memory and registers are zero, no callback has run
Init ==
    /\ cpu = reset(CpuStateDefault)
    /\ memory_ = NoMem
    /\ lastMemoryAccess_ = [address |-> 0, data |-> 0, accessMode |-> "READ"]
    /\ bad = {}
    /\ cycles = <<>>
    /\ err = NoErr
    /\ log = <<>>
    /\ initial = CpuStateDefault
    /\ loads = 0

\* the harness's set-up of one case: bus.reset(), the ram writes,
\* cycleCount = 0, cpu.reset(initial.cpuState)
LoadTest(T) ==
    /\ loads = 0
    /\ \E x \in T :
         \E t \in {TestCase(x[1], x[2], x[3], x[4], x[5], x[6])} :
           \E b \in {WriteRam([mem |-> NoMem, last |-> lastMemoryAccess_], t.ram)} :
              /\ cpu' = reset(t.cpuState)
              /\ memory_' = b.mem
              /\ lastMemoryAccess_' = b.last
              /\ bad' = t.bad
              /\ initial' = t.cpuState
    /\ cycles' = <<>>
    /\ err' = NoErr
    /\ log' = <<>>
    /\ loads' = loads + 1

\* cpu.step()
Step ==
    /\ Len(log) < MaxSteps
    /\ err.kind # "terminate"
    /\ \E m \in {step(Machine)} :
          /\ cpu' = m.cpu
          /\ memory_' = m.mem
          /\ lastMemoryAccess_' = m.last
          /\ cycles' = m.cycles
          /\ err' = [kind |-> m.err, opcode |-> m.errOpcode]
          /\ log' = Append(log, [pre |-> cpu,
                                 opcode |-> MemAt(memory_, cpu.PC),
                                 next |-> MemAt(memory_, U16(cpu.PC + 1)),
                                 atHL |-> MemAt(memory_, PairValue(cpu.H, cpu.L)),
                                 ticks |-> Ticks(m.cycles),
                                 err |-> m.err])
    /\ UNCHANGED <<bad, initial, loads>>

Next == LoadTest(Tests) \/ Step

Spec == Init /\ [][Next]_vars

\* the step made twice from the same state: by the Cpu with the harness's
\* callback installed, and by a Cpu on an equal bus after
\* setOnTickCallback(nullptr), whose outcome is kept in the log record
StepPair ==
    /\ Len(log) < MaxSteps
    /\ err.kind # "terminate"
    /\ \E m \in {step(Machine)} : \E q \in {step([Machine EXCEPT !.onTick = FALSE])} :
          /\ cpu' = m.cpu
          /\ memory_' = m.mem
          /\ lastMemoryAccess_' = m.last
          /\ cycles' = m.cycles
          /\ err' = [kind |-> m.err, opcode |-> m.errOpcode]
          /\ log' = Append(log, [pre |-> cpu,
                                 opcode |-> MemAt(memory_, cpu.PC),
                                 next |-> MemAt(memory_, U16(cpu.PC + 1)),
                                 atHL |-> MemAt(memory_, PairValue(cpu.H, cpu.L)),
                                 ticks |-> Ticks(m.cycles),
                                 err |-> m.err,
                                 quiet |-> [cpu |-> q.cpu, mem |-> q.mem,
                                            cycles |-> q.cycles, err |-> q.err]])
    /\ UNCHANGED <<bad, initial, loads>>

NextPair == LoadTest(Tests) \/ StepPair

SpecPair == Init /\ [][NextPair]_vars

\* a bus that throws
NextFault == LoadTest(FaultTests) \/ Step

SpecFault == Init /\ [][NextFault]_vars

-----------------------------------------------------------------------------
(* Programs: cases of two instructions, built the way the harness builds   *)
(* a case (a CpuState for reset and a list of ram slots)                   *)

\* CALL nn at pc with a RET (0xC9) at nn; the RET byte is written first, so
\* the CALL wins where the two overlap
CallCase(pc, sp, nn) ==
    [cpuState |-> [Preset(1) EXCEPT !.PC = pc, !.SP = sp],
     ram |-> << <<nn, 201>>, <<pc, 205>>, <<U16(pc + 1), getLower(nn)>>,
                <<U16(pc + 2), getUpper(nn)>> >>,
     bad |-> {}]

CallAddresses == {0, 1, 2, 256, 4660, 65533, 65534, 65535}

CallTests ==
    {<<"call", pc, sp, nn>> :
        pc \in CallAddresses, sp \in CallAddresses, nn \in CallAddresses}

\* two instructions op1 n1, op2 n2 at 0x0110 (an instruction of one byte
\* makes the next byte the second instruction).  A is a, F is f, the other
\* byte registers are v, so HL is v * 0x101, which is never an address of
\* the code; the byte at (HL) and at (SP) is d, the byte at (SP+1) is v
CodeCase(a, f, v, d, sp, op1, n1, op2, n2) ==
    [cpuState |-> [A |-> a, B |-> v, C |-> v, D |-> v, E |-> v, F |-> f,
                   H |-> v, L |-> v, SP |-> sp, PC |-> 272],
     ram |-> << <<PairValue(v, v), d>>, <<sp, d>>, <<U16(sp + 1), v>>,
                <<272, op1>>, <<273, n1>>, <<274, op2>>, <<275, n2>> >>,
     bad |-> {}]

\* the case a parameter tuple stands for
\* a case for the 16-bit instructions: HL, the pair held by BC and DE, SP
\* and PC are chosen, one instruction with its operand sits at PC
WideCase(hl, rr, sp, pc, f, op, n1) ==
    [cpuState |-> [A |-> 18, B |-> rr \div 256, C |-> rr % 256,
                   D |-> rr \div 256, E |-> rr % 256, F |-> f,
                   H |-> hl \div 256, L |-> hl % 256, SP |-> sp, PC |-> pc],
     ram |-> << <<hl, 90>>, <<pc, op>>, <<U16(pc + 1), n1>>, <<U16(pc + 2), 0>> >>,
     bad |-> {}]

ProgramCase(x) ==
    CASE x[1] = "call" -> CallCase(x[2], x[3], x[4])
      [] x[1] = "code" -> CodeCase(x[2], x[3], x[4], x[5], x[6], x[7], x[8], x[9], x[10])
      [] x[1] = "wide" -> WideCase(x[2], x[3], x[4], x[5], x[6], x[7], x[8])

\* the harness's set-up of one program: as LoadTest
LoadProgram(T) ==
    /\ loads = 0
    /\ \E x \in T :
         \E t \in {ProgramCase(x)} :
           \E b \in {WriteRam([mem |-> NoMem, last |-> lastMemoryAccess_], t.ram)} :
              /\ cpu' = reset(t.cpuState)
              /\ memory_' = b.mem
              /\ lastMemoryAccess_' = b.last
              /\ bad' = t.bad
              /\ initial' = t.cpuState
    /\ cycles' = <<>>
    /\ err' = NoErr
    /\ log' = <<>>
    /\ loads' = loads + 1

\* the snapshots given to a reset that follows steps: CpuState{} with every
\* field omitted, with some fields given, and with all given
ResetStates ==
    {CpuStateDefault,
     [CpuStateDefault EXCEPT !.PC = 256, !.A = 18],
     [CpuStateDefault EXCEPT !.SP = 65534, !.H = 192, !.F = 128],
     Preset(2)}

\* cpu.reset(state) on a CPU that has run: the bus is not touched and the
\* callback is not called
Reset ==
    /\ loads = 1
    /\ Len(log) > 0
    /\ \E state \in ResetStates :
          /\ cpu' = reset(state)
          /\ initial' = state
    /\ loads' = loads + 1
    /\ UNCHANGED <<memory_, lastMemoryAccess_, bad, cycles, err, log>>

\* PUSH / POP pairs followed by a reset
NextReset == LoadTest(StackTests) \/ Step \/ Reset

SpecReset == Init /\ [][NextReset]_vars

\* two CB-prefixed instructions on one target t (0..7: B, C, D, E, H, L,
\* (HL), A) that holds v: SWAP; SWAP, RLC; RRC, RRC; RLC, SET n; BIT n and
\* RES n; BIT n
CBTests(v) ==
    {<<"code", v, f, v, v, 65534, 203, 48 + t, 203, 48 + t>> :
        f \in {0, 240}, t \in 0..7}
    \cup
    {<<"code", v, f, v, v, 65534, 203, t + k, 203, t + (8 - k)>> :
        f \in {0, 16, 128, 240}, t \in 0..7, k \in {0, 8}}
    \cup
    {<<"code", v, 128, v, v, 65534, 203, 192 + nt, 203, 64 + nt>> : nt \in 0..63}
    \cup
    {<<"code", v, 0, v, v, 65534, 203, 128 + nt, 203, 64 + nt>> : nt \in 0..63}

NextCB == (\E v \in Byte : LoadProgram(CBTests(v))) \/ Step

SpecCB == Init /\ [][NextCB]_vars

\* values of A for the arithmetic cases: both ends of each nibble
AluValues ==
    {0, 1, 2, 7, 8, 14, 15, 16, 17, 31, 32, 63, 64, 127, 128, 129, 143, 144,
     175, 176, 223, 224, 239, 240, 241, 247, 248, 254, 255}

\* ADD / ADC / SUB / SBC / CP A,n for A in AluValues; A,B and A,(HL) for a few A;
\* A,A for every A; all with the operand x, the carry flag clear (the other
\* flags set) and set (the other flags clear), followed by a NOP;
\* DAA with A = x and each of the 16 flag states; INC t and DEC t for each
\* target t (0..7: B, C, D, E, H, L, (HL), A) holding x
AluTests(x) ==
    {<<"code", a, f, x, x, 65534, op, x, 0, 0>> :
        a \in AluValues, f \in {224, 16}, op \in {198, 206, 214, 222, 254}}
    \cup
    {<<"code", a, f, x, x, 65534, op, 0, 0, 0>> :
        a \in {0, 15, 128, 255}, f \in {224, 16},
        op \in {128, 136, 144, 152, 184, 134, 142, 150, 158, 190}}
    \cup
    {<<"code", x, f, 0, 0, 65534, op, 0, 0, 0>> :
        f \in {224, 16}, op \in {135, 143, 151, 159, 191}}
    \cup
    {<<"code", x, f * 16, 0, 0, 65534, 39, 0, 0, 0>> : f \in 0..15}
    \cup
    {<<"code", x, f, x, x, 65534, (8 * t) + k, 0, 0, 0>> :
        f \in {224, 16}, t \in 0..7, k \in {4, 5}}

NextAlu == (\E x \in Byte : LoadProgram(AluTests(x))) \/ Step

SpecAlu == Init /\ [][NextAlu]_vars

\* POP AF with the byte d at (SP) and v at (SP+1), for stacks that wrap and
\* flag registers with low bits set, followed by a NOP
PopTests(d) ==
    {<<"code", a, f, v, d, sp, 241, 0, 0, 0>> :
        a \in {0, 255}, f \in {0, 15, 240}, v \in {0, 18, 255},
        sp \in {0, 256, 65534, 65535}}

\* PUSH / POP pairs, and POP AF on every byte
NextStack ==
    \/ LoadTest(StackTests)
    \/ \E d \in Byte : LoadProgram(PopTests(d))
    \/ Step

SpecStack == Init /\ [][NextStack]_vars

\* CALL nn / RET
\* the 16-bit cases with operand (or data pattern) e: ADD SP,e and
\* LD HL,SP+e, JR e and JR cc,e, ADD HL,rr, the LD (HL+/-) forms, and the
\* cases at the ends of the address space: a fetch at 0xFFFF, PUSH at
\* SP = 0x0000, POP at SP = 0xFFFF, LD (0xFFFF),SP, INC rr at 0xFFFF and
\* DEC rr at 0x0000
WideTests(e) ==
    {<<"wide", 4660, 0, sp, 256, f, op, e>> :
        sp \in {0, 1, 15, 16, 255, 256, 2048, 4095, 4096, 32767, 32768, 61440,
                65280, 65520, 65534, 65535},
        f \in {0, 240}, op \in {232, 248}}
    \cup {<<"wide", 4660, 0, 65534, pc, f, op, e>> :
        pc \in {0, 256, 32767, 65534, 65535}, f \in {0, 144}, op \in {24, 32, 40, 48, 56}}
    \cup {<<"wide", hl, rr, rr, 256, f, op, 0>> :
        hl \in {0, 1, 255, 256, 2048, 4095, 4096, 32768, 61440, 65535},
        rr \in {e * 257, (e * 256) + 255, e * 16}, f \in {192, 112}, op \in {9, 25, 57}}
    \cup {<<"wide", hl, 0, 65534, 256, f, 41, 0>> :
        hl \in {e * 257, (e * 256) + 255, (e * 16) + 2048}, f \in {192, 112}}
    \cup {<<"wide", hl, 0, 65534, 256, 0, op, 0>> :
        hl \in {0, 65535, e * 257}, op \in {34, 42, 50, 58}}
    \cup {<<"wide", 4660, 0, 65534, 65535, 0, op, e>> : op \in {1, 62, 195}}
    \cup {<<"wide", e * 257, e * 257, 0, 256, 0, op, 0>> : op \in PushOpcodes}
    \cup {<<"wide", 65535, 0, 65535, 256, 0, op, e>> : op \in PopOpcodes}
    \cup {<<"code", 18, 0, e, e, e * 257, 8, 255, 255, 0>>}
    \cup {<<"wide", 65535, 65535, 65535, 256, e - (e % 16), op, 0>> : op \in {3, 19, 35, 51}}
    \cup {<<"wide", 0, 0, 0, 256, e - (e % 16), op, 0>> : op \in {11, 27, 43, 59}}

NextWide == (\E e \in Byte : LoadProgram(WideTests(e))) \/ Step

SpecWide == Init /\ [][NextWide]_vars

\* ADD / ADC / SUB / SBC A,b followed by DAA, for every A with both nibbles
\* at most 9, when b is such a byte too; F starts empty or full
BcdTests(b) ==
    IF (b % 16) > 9 \/ (b \div 16) > 9
    THEN {}
    ELSE {<<"code", (16 * hi) + lo, f, 0, 0, 65534, op, b, 39, 0>> :
            hi \in 0..9, lo \in 0..9, f \in {0, 240}, op \in {198, 206, 214, 222}}

NextBcd == (\E b \in Byte : LoadProgram(BcdTests(b))) \/ Step

SpecBcd == Init /\ [][NextBcd]_vars

\* the one-byte instructions that move SP by two, and NOP and INC A
StackOpcodes ==
    PushOpcodes \cup PopOpcodes \cup {192, 200, 208, 216, 201, 217}
        \cup {199, 207, 215, 223, 231, 239, 247, 255} \cup {0, 60}

\* sequences of stack instructions: two (and a third) one-byte instructions in
\* a row at 0x0110, the stack holding 0x0111 so that a RET goes on with the
\* second; and CALL nn / CALL cc,nn to 0x0113 followed by one at 0x0113
StackSequences ==
    {<<"code", 18, f, 1, 17, sp, op1, op2, op3, 0>> :
        f \in {0, 144}, sp \in {65534, 0, 1}, op1 \in StackOpcodes,
        op2 \in StackOpcodes, op3 \in {193, 197}}
    \cup
    {<<"code", 18, f, 1, 17, sp, call, 19, 1, op2>> :
        f \in {0, 144}, sp \in {65534, 0, 1}, call \in {205, 196, 204, 212, 220},
        op2 \in StackOpcodes}

NextCall == LoadProgram(CallTests \cup StackSequences) \/ Step

SpecCall == Init /\ [][NextCall]_vars

-----------------------------------------------------------------------------
(* Properties *)

Stepped == Len(log) > 0
Last == log[Len(log)]
Returned == Stepped /\ err.kind = "none"

IsAccess(e) == e.kind \in {"read", "write"}
Writes(cyc) == {i \in DOMAIN cyc : cyc[i].kind = "write"}
Reads(cyc) == {i \in DOMAIN cyc : cyc[i].kind = "read"}

\* the byte values the instruction set leaves undefined:
\* 0xD3 0xDB 0xDD 0xE3 0xE4 0xEB 0xEC 0xED 0xF4 0xFC 0xFD
IllegalOpcodes == {211, 219, 221, 227, 228, 235, 236, 237, 244, 252, 253}

\* bit b of a byte
Bit(v, b) == (v \div (2 ^ b)) % 2 = 1

\* the condition cc of an opcode (bits 3 and 4: NZ, Z, NC, C) on a value of F
Cond(opcode, f) ==
    LET cc == (opcode \div 8) % 4
    IN CASE cc = 0 -> ~Bit(f, 7)
         [] cc = 1 -> Bit(f, 7)
         [] cc = 2 -> ~Bit(f, 4)
         [] cc = 3 -> Bit(f, 4)

\* C1: in the cycles of a step every bus read and write is immediately
\* followed by one tick callback, which sees that access in the bus's
\* last-access record (address and direction, for writes also the value);
\* and every tick that Cpu::read / Cpu::write emits follows such an access
C1_AccessThenTick ==
    /\ \A i \in DOMAIN cycles :
         IsAccess(cycles[i]) =>
            /\ i + 1 \in DOMAIN cycles
            /\ cycles[i + 1].kind = "tick"
            /\ cycles[i + 1].after = "access"
            /\ cycles[i + 1].seen.address = cycles[i].address
            /\ cycles[i + 1].seen.accessMode =
                  (IF cycles[i].kind = "read" THEN "READ" ELSE "WRITE")
            /\ cycles[i].kind = "write" => cycles[i + 1].seen.data = cycles[i].data
    /\ \A j \in DOMAIN cycles :
         (cycles[j].kind = "tick" /\ cycles[j].after = "access") =>
            (j > 1 /\ IsAccess(cycles[j - 1]))

\* a step with reads, an internal tick and writes (CALL nn taken)
C1_Witness ==
    /\ Returned
    /\ Last.opcode = 205
    /\ Cardinality(Reads(cycles)) = 3
    /\ Cardinality(Writes(cycles)) = 2
    /\ Ticks(cycles) = 6

\* C2: after step returns, bits 0..3 of F are zero, whatever F reset was given
C2_LowNibbleZeroAfterStep ==
    Returned => BitAnd(cpu.F, 15) = 0

\* C3: after reset(state), F() = state.F & 0xF0 and AF() = (state.A << 8) | (state.F & 0xF0)
C3_ResetMasksF ==
    (loads = 1 /\ log = <<>>) =>
        /\ cpu.F = BitAnd(initial.F, 240)
        /\ PairValue(cpu.A, cpu.F) = (initial.A * 256) + BitAnd(initial.F, 240)

\* C4: a fetched illegal byte ends the step with an illegal-opcode error
\* carrying that byte, PC one past the fetch, one tick, no bus write and the
\* other registers unchanged; no other byte gives that error
C4_IllegalOpcode ==
    Stepped =>
        /\ Last.opcode \in IllegalOpcodes =>
              /\ err.kind = "illegal"
              /\ err.opcode = Last.opcode
              /\ cpu.PC = (Last.pre.PC + 1) % 65536
              /\ Ticks(cycles) = 1
              /\ Len(cycles) = 2
              /\ cycles[1].kind = "read" /\ cycles[1].address = Last.pre.PC
              /\ Writes(cycles) = {}
              /\ \A r \in RegNames \ {"PC"} : cpu[r] = Last.pre[r]
        /\ Last.opcode \notin IllegalOpcodes => err.kind # "illegal"

C4_Witness ==
    /\ Stepped
    /\ Last.opcode = 253
    /\ err = [kind |-> "illegal", opcode |-> 253]
    /\ Last.pre.PC = 65534
    /\ cpu.PC = 65535

\* C5: no step ends with the opcode-not-implemented error, and a step whose
\* first byte is not one of the 11 illegal bytes returns normally
C5_NoNotImplemented ==
    Stepped =>
        /\ err.kind # "notimpl"
        /\ Last.opcode \notin IllegalOpcodes => err.kind = "none"

\* the last extended opcode, 0xCBFF, has returned
C5_Witness ==
    /\ Returned
    /\ Last.opcode = 203
    /\ Last.next = 255
    /\ Len(log) = 1

\* C6: an error raised by the bus during a step reaches the caller of step
\* as it is: the program is not aborted
C6_BusErrorPropagates ==
    Stepped =>
        /\ err.kind # "terminate"
        /\ err.kind = "bus" => err.opcode \in bad

\* the ticks the timing table gives a control-flow opcode, by the F it starts with
ControlFlowOpcodes ==
    {24, 32, 40, 48, 56, 194, 202, 210, 218, 195, 233, 205, 196, 204, 212, 220,
     201, 192, 200, 208, 216, 217, 199, 207, 215, 223, 231, 239, 247, 255}

ControlFlowTicks(opcode, f) ==
    CASE opcode = 24 -> 3                                          \* JR e
      [] opcode \in {32, 40, 48, 56} -> IF Cond(opcode, f) THEN 3 ELSE 2      \* JR cc,e
      [] opcode = 195 -> 4                                         \* JP nn
      [] opcode \in {194, 202, 210, 218} -> IF Cond(opcode, f) THEN 4 ELSE 3  \* JP cc,nn
      [] opcode = 233 -> 1                                         \* JP HL
      [] opcode = 205 -> 6                                         \* CALL nn
      [] opcode \in {196, 204, 212, 220} -> IF Cond(opcode, f) THEN 6 ELSE 3  \* CALL cc,nn
      [] opcode = 201 -> 4                                         \* RET
      [] opcode \in {192, 200, 208, 216} -> IF Cond(opcode, f) THEN 5 ELSE 2  \* RET cc
      [] opcode = 217 -> 4                                         \* RETI
      [] opcode \in {199, 207, 215, 223, 231, 239, 247, 255} -> 4  \* RST t

\* C7: every control-flow instruction emits the number of ticks of the table
C7_ControlFlowTicks ==
    (Stepped /\ Last.opcode \in ControlFlowOpcodes) =>
        /\ err.kind = "none"
        /\ Ticks(cycles) = ControlFlowTicks(Last.opcode, Last.pre.F)

\* RET NZ has been taken, with 5 ticks
C7_Witness ==
    /\ Returned
    /\ Last.opcode = 192
    /\ ~Bit(Last.pre.F, 7)
    /\ Ticks(cycles) = 5

\* the ticks of the 16-bit load, stack and 16-bit arithmetic instructions
WideTicks(opcode) ==
    CASE opcode \in {1, 17, 33, 49} -> 3          \* LD rr,nn
      [] opcode = 8 -> 5                           \* LD (nn),SP
      [] opcode = 249 -> 2                         \* LD SP,HL
      [] opcode = 248 -> 3                         \* LD HL,SP+e
      [] opcode \in {197, 213, 229, 245} -> 4      \* PUSH rr
      [] opcode \in {193, 209, 225, 241} -> 3      \* POP rr
      [] opcode \in {3, 19, 35, 51} -> 2           \* INC rr
      [] opcode \in {11, 27, 43, 59} -> 2          \* DEC rr
      [] opcode \in {9, 25, 41, 57} -> 2           \* ADD HL,rr
      [] opcode = 232 -> 4                         \* ADD SP,e

WideOpcodes ==
    {1, 17, 33, 49, 8, 249, 248, 197, 213, 229, 245, 193, 209, 225, 241,
     3, 19, 35, 51, 11, 27, 43, 59, 9, 25, 41, 57, 232}

\* C8: every 16-bit load, stack and 16-bit arithmetic instruction emits the
\* number of ticks of the table
C8_WideTicks ==
    (Stepped /\ Last.opcode \in WideOpcodes) =>
        /\ err.kind = "none"
        /\ Ticks(cycles) = WideTicks(Last.opcode)

\* ADD SP,e has run with its 4 ticks
C8_Witness ==
    /\ Returned
    /\ Last.opcode = 232
    /\ Ticks(cycles) = 4
    /\ Len(log) = 1

\* C9: a CB-prefixed instruction reads its second byte at PC + 1 and leaves
\* PC advanced by 2; a register target takes 2 ticks, an (HL) target 4 ticks
\* (read of (HL), then a write to the same address), BIT n,(HL) 3 ticks and
\* no write
C9_Extended ==
    (Stepped /\ Last.opcode = 203) =>
        LET hl == (Last.pre.H * 256) + Last.pre.L
            target == Last.next % 8
            isBit == Last.next \in 64..127
        IN /\ err.kind = "none"
           /\ cpu.PC = (Last.pre.PC + 2) % 65536
           /\ cycles[1].kind = "read" /\ cycles[1].address = Last.pre.PC
           /\ cycles[3].kind = "read" /\ cycles[3].address = (Last.pre.PC + 1) % 65536
           /\ target # 6 => /\ Ticks(cycles) = 2
                            /\ Len(cycles) = 4
           /\ (target = 6 /\ ~isBit) =>
                 /\ Ticks(cycles) = 4
                 /\ Len(cycles) = 8
                 /\ cycles[5].kind = "read" /\ cycles[5].address = hl
                 /\ cycles[7].kind = "write" /\ cycles[7].address = hl
           /\ (target = 6 /\ isBit) =>
                 /\ Ticks(cycles) = 3
                 /\ Len(cycles) = 6
                 /\ cycles[5].kind = "read" /\ cycles[5].address = hl
                 /\ Writes(cycles) = {}

\* BIT 7,(HL) has run
C9_Witness ==
    /\ Returned
    /\ Last.opcode = 203
    /\ Last.next = 126
    /\ Ticks(cycles) = 3

\* the pair pushed by a PUSH opcode / popped by a POP opcode:
\* 0xC5/0xC1 BC, 0xD5/0xD1 DE, 0xE5/0xE1 HL, 0xF5/0xF1 AF
StackPair(opcode) ==
    CASE opcode \in {197, 193} -> <<"B", "C">>
      [] opcode \in {213, 209} -> <<"D", "E">>
      [] opcode \in {229, 225} -> <<"H", "L">>
      [] opcode \in {245, 241} -> <<"A", "F">>

\* PUSH rr then POP rr have run, pushed bytes clear of the POP opcode
PushThenPop ==
    /\ Len(log) = 2
    /\ log[1].opcode \in PushOpcodes
    /\ log[2].opcode = log[1].opcode - 4
    /\ (log[1].pre.SP - 1) % 65536 # (log[1].pre.PC + 1) % 65536
    /\ (log[1].pre.SP - 2) % 65536 # (log[1].pre.PC + 1) % 65536

\* C10: PUSH rr followed by POP rr restores rr and SP (POP AF leaves the low
\* nibble of F cleared), takes 7 ticks in all and leaves the high byte at
\* SP-1 and the low byte at SP-2
C10_PushPop ==
    PushThenPop =>
        LET before == log[1].pre
            rr == StackPair(log[1].opcode)
            hi == before[rr[1]]
            lo == before[rr[2]]
        IN /\ err.kind = "none"
           /\ log[1].err = "none"
           /\ cpu.SP = before.SP
           /\ cpu[rr[1]] = hi
           /\ cpu[rr[2]] = (IF rr[2] = "F" THEN lo - (lo % 16) ELSE lo)
           /\ log[1].ticks + log[2].ticks = 7
           /\ MemAt(memory_, (before.SP - 1) % 65536) = hi
           /\ MemAt(memory_, (before.SP - 2) % 65536) = lo

\* PUSH AF / POP AF with a stack that wraps below 0 and an F with low bits set
C10_Witness ==
    /\ PushThenPop
    /\ log[1].opcode = 245
    /\ log[1].pre.SP = 0
    /\ log[1].pre.F = 106
    /\ cpu.F = 96

\* CALL nn then the RET at nn have run, the pushed bytes clear of the RET
CallThenRet ==
    /\ Len(log) = 2
    /\ log[1].opcode = 205
    /\ log[2].opcode = 201
    /\ U16(log[1].pre.SP - 1 + 65536) # log[2].pre.PC
    /\ U16(log[1].pre.SP - 2 + 65536) # log[2].pre.PC

\* C11: CALL nn followed by the RET at nn leaves PC at the instruction after
\* the CALL (pre-CALL PC + 3) and SP at its pre-CALL value; the return
\* address is on the stack, high byte at SP-1 and low byte at SP-2, and the
\* two steps take 10 ticks
C11_CallRet ==
    CallThenRet =>
        LET before == log[1].pre
            ret == (before.PC + 3) % 65536
        IN /\ err.kind = "none"
           /\ log[1].err = "none"
           /\ cpu.PC = ret
           /\ cpu.SP = before.SP
           /\ MemAt(memory_, (before.SP + 65535) % 65536) = ret \div 256
           /\ MemAt(memory_, (before.SP + 65534) % 65536) = ret % 256
           /\ log[1].ticks + log[2].ticks = 10
           /\ \A r \in RegNames \ {"PC", "SP"} : cpu[r] = before[r]

\* a CALL at 0xFFFE (its return address wraps to 1) with the stack wrapping
\* below 0
C11_Witness ==
    /\ CallThenRet
    /\ log[1].pre.PC = 65534
    /\ log[1].pre.SP = 1
    /\ log[2].pre.PC = 4660
    /\ cpu.PC = 1
    /\ cpu.SP = 1

\* the pair an opcode writes through (LD rr,nn; INC rr; DEC rr; POP rr)
PairWriteOpcodes == {1, 17, 33, 3, 19, 35, 11, 27, 43, 193, 209, 225, 241}

WrittenPair(opcode) ==
    CASE opcode \in {1, 3, 11, 193} -> <<"B", "C">>
      [] opcode \in {17, 19, 27, 209} -> <<"D", "E">>
      [] opcode \in {33, 35, 43, 225} -> <<"H", "L">>
      [] opcode = 241 -> <<"A", "F">>

\* the 16-bit value the opcode gives its pair
WrittenValue(opcode, before) ==
    LET rr == WrittenPair(opcode)
        old == (before[rr[1]] * 256) + before[rr[2]]
    IN CASE opcode \in {1, 17, 33} ->
              (MemAt(memory_, (before.PC + 2) % 65536) * 256)
                 + MemAt(memory_, (before.PC + 1) % 65536)
         [] opcode \in {3, 19, 35} -> (old + 1) % 65536
         [] opcode \in {11, 27, 43} -> (old + 65535) % 65536
         [] opcode \in {193, 209, 225} ->
              (MemAt(memory_, (before.SP + 1) % 65536) * 256)
                 + MemAt(memory_, before.SP)
         [] opcode = 241 ->
              (MemAt(memory_, (before.SP + 1) % 65536) * 256)
                 + ((MemAt(memory_, before.SP) \div 16) * 16)

\* C12: in every state each pair accessor is (high << 8) | low of its two
\* byte registers, so a write to either byte shows through the pair at
\* once; and an instruction that writes through a pair gives the pair its
\* value and changes no byte register outside the pair
C12_PairViews ==
    /\ AF(Machine) = (cpu.A * 256) + cpu.F
    /\ BC(Machine) = (cpu.B * 256) + cpu.C
    /\ DE(Machine) = (cpu.D * 256) + cpu.E
    /\ HL(Machine) = (cpu.H * 256) + cpu.L
    /\ (Returned /\ Last.opcode \in PairWriteOpcodes) =>
          LET rr == WrittenPair(Last.opcode)
          IN /\ Pair(Machine, rr) = WrittenValue(Last.opcode, Last.pre)
             /\ \A r \in {"A", "B", "C", "D", "E", "F", "H", "L"} \ {rr[1], rr[2]} :
                   cpu[r] = Last.pre[r]

\* INC HL on HL = 0xFFFF: both bytes change and HL() reads 0
C12_Witness ==
    /\ Returned
    /\ Last.opcode = 35
    /\ Last.pre.H = 255 /\ Last.pre.L = 255
    /\ cpu.H = 0 /\ cpu.L = 0
    /\ HL(Machine) = 0

\* the registers C13 names
ResetRegisters == {"A", "B", "C", "D", "E", "H", "L", "SP", "PC"}

\* C13: a freshly constructed CPU has every register zero; a reset gives
\* A, B, C, D, E, H, L, SP and PC the snapshot's values (zero for the omitted
\* fields) whatever the earlier steps left in them, and a reset that follows
\* steps accesses no bus and calls no tick callback
C13_Reset ==
    /\ []((loads = 0 /\ log = <<>>) => \A r \in RegNames : cpu[r] = 0)
    /\ [][(loads' = loads + 1) =>
             /\ \A r \in ResetRegisters : cpu'[r] = initial'[r]
             /\ (loads = 1) =>
                   /\ cycles' = cycles
                   /\ memory_' = memory_
                   /\ lastMemoryAccess_' = lastMemoryAccess_]_vars

\* reset(CpuState{}) after PUSH BC and POP DE changed SP, D, E and PC
C13_Witness ==
    /\ loads = 2
    /\ Len(log) = 2
    /\ log[1].opcode = 197 /\ log[2].opcode = 209
    /\ log[2].pre.SP # 0
    /\ initial = CpuStateDefault
    /\ \A r \in ResetRegisters : cpu[r] = 0
    /\ Ticks(cycles) = 3

\* the target of a CB-prefixed instruction: bits 0..2 of its second byte
TargetBefore(i) ==
    LET r == R8[(log[i].next % 8) + 1]
    IN IF r = "(HL)" THEN log[i].atHL ELSE log[i].pre[r]

TargetNow ==
    LET r == R8[(Last.next % 8) + 1]
    IN IF r = "(HL)" THEN MemAt(memory_, (cpu.H * 256) + cpu.L) ELSE cpu[r]

\* two CB-prefixed instructions have run and returned
TwoExtended ==
    /\ Len(log) = 2
    /\ log[1].opcode = 203 /\ log[2].opcode = 203
    /\ log[1].err = "none" /\ err.kind = "none"
    /\ log[1].next % 8 = log[2].next % 8

\* C14: SWAP applied twice to a register or to (HL) returns it to its value
C14_SwapTwice ==
    (TwoExtended /\ log[1].next \in 48..55 /\ log[2].next \in 48..55) =>
        TargetNow = TargetBefore(1)

\* SWAP (HL) twice on 0xA5: 0x5A after the first, 0xA5 after the second
C14_Witness ==
    /\ TwoExtended
    /\ log[1].next = 54 /\ log[2].next = 54
    /\ TargetBefore(1) = 165
    /\ TargetBefore(2) = 90
    /\ TargetNow = 165

\* C15: RLC then RRC, and RRC then RLC, on one target return it to its
\* value, whatever the flags were
C15_RotateBack ==
    (/\ TwoExtended
     /\ \/ log[1].next \in 0..7 /\ log[2].next = log[1].next + 8
        \/ log[1].next \in 8..15 /\ log[2].next = log[1].next - 8) =>
        TargetNow = TargetBefore(1)

\* RRC E then RLC E on 0x01 with the carry flag clear: 0x80, then 0x01 again
C15_Witness ==
    /\ TwoExtended
    /\ log[1].next = 11 /\ log[2].next = 3
    /\ log[1].pre.F = 0
    /\ TargetBefore(1) = 1
    /\ TargetBefore(2) = 128
    /\ cpu.E = 1

\* the bit index of a BIT, RES or SET: bits 3..5 of the second byte
BitIndex(offset) == (offset \div 8) % 8

\* C16: BIT n after SET n on the same target leaves Z = 0, BIT n after RES n
\* leaves Z = 1, and SET n and RES n change no bit of the target but bit n
C16_SetResBit ==
    /\ (TwoExtended /\ log[1].next \in 192..255 /\ log[2].next = log[1].next - 128) =>
          ~Bit(cpu.F, 7)
    /\ (TwoExtended /\ log[1].next \in 128..191 /\ log[2].next = log[1].next - 64) =>
          Bit(cpu.F, 7)
    /\ (Returned /\ Len(log) = 1 /\ Last.opcode = 203 /\ Last.next \in 128..255) =>
          /\ \A b \in (0..7) \ {BitIndex(Last.next)} :
                Bit(TargetNow, b) = Bit(TargetBefore(1), b)
          /\ Bit(TargetNow, BitIndex(Last.next)) = (Last.next >= 192)

\* SET 7,(HL) on 0x7F with Z set, then BIT 7,(HL): the byte is 0xFF and Z
\* is clear
C16_Witness ==
    /\ TwoExtended
    /\ log[1].next = 254 /\ log[2].next = 126
    /\ log[1].pre.F = 128
    /\ TargetBefore(1) = 127
    /\ TargetNow = 255
    /\ ~Bit(cpu.F, 7)

\* STOP (0x10) and HALT (0x76)
HaltOpcodes == {16, 118}

\* C17: HALT and STOP take 3 ticks, the fetch read and two internal ticks
\* with no other bus access; they write no memory and change no register
\* but PC, which advances by 1; the next step fetches at that PC
C17_HaltStop ==
    /\ (Stepped /\ Last.opcode \in HaltOpcodes) =>
          /\ err.kind = "none"
          /\ Ticks(cycles) = 3
          /\ Len(cycles) = 4
          /\ cycles[1].kind = "read" /\ cycles[1].address = Last.pre.PC
          /\ cycles[3].after = "internal" /\ cycles[4].after = "internal"
          /\ Writes(cycles) = {}
          /\ cpu.PC = (Last.pre.PC + 1) % 65536
          /\ \A r \in RegNames \ {"PC"} : cpu[r] = Last.pre[r]
    /\ (Len(log) = 2 /\ log[1].opcode \in HaltOpcodes) =>
          /\ log[2].pre.PC = (log[1].pre.PC + 1) % 65536
          /\ log[2].pre = [log[1].pre EXCEPT !.PC = log[2].pre.PC]
          /\ cycles[1].kind = "read"
          /\ cycles[1].address = log[2].pre.PC
          /\ cycles[1].data = log[1].next
          /\ log[2].opcode = log[1].next

\* HALT at 0xFFFE, then the instruction at 0xFFFF (ADD A,B) has run
C17_Witness ==
    /\ Len(log) = 2
    /\ log[1].opcode = 118
    /\ log[1].ticks = 3
    /\ log[1].pre.PC = 65534
    /\ log[2].pre.PC = 65535
    /\ log[2].opcode = 128
    /\ err.kind = "none"

\* the second operand of an 8-bit arithmetic opcode: n, B, (HL) or A
Operand(i) ==
    CASE log[i].opcode \in {198, 206, 214, 222, 254} -> log[i].next
      [] log[i].opcode \in {128, 136, 144, 152, 184} -> log[i].pre.B
      [] log[i].opcode \in {134, 142, 150, 158, 190} -> log[i].atHL
      [] log[i].opcode \in {135, 143, 151, 159, 191} -> log[i].pre.A

\* the incoming carry flag as 0 or 1
CarryIn(i) == IF Bit(log[i].pre.F, 4) THEN 1 ELSE 0

AddOpcodes == {198, 128, 134, 135}
AdcOpcodes == {206, 136, 142, 143}

\* C18: ADD A,x leaves A = (A + x) mod 256 and ADC A,x leaves
\* A = (A + x + Cin) mod 256, with Z = (result = 0), N = 0,
\* H = ((A & 0xF) + (x & 0xF) + Cin > 0xF) and C = (A + x + Cin > 0xFF),
\* Cin being 0 for ADD; also when the source is A itself
C18_AddAdc ==
    (Len(log) = 1 /\ log[1].opcode \in AddOpcodes \cup AdcOpcodes) =>
        LET a == log[1].pre.A
            x == Operand(1)
            cin == IF log[1].opcode \in AdcOpcodes THEN CarryIn(1) ELSE 0
            result == (a + x + cin) % 256
        IN /\ err.kind = "none"
           /\ cpu.A = result
           /\ Bit(cpu.F, 7) = (result = 0)
           /\ ~Bit(cpu.F, 6)
           /\ Bit(cpu.F, 5) = ((a % 16) + (x % 16) + cin > 15)
           /\ Bit(cpu.F, 4) = (a + x + cin > 255)
           /\ cpu.F % 16 = 0

\* ADC A,A with A = 0x80 and the carry set: A = 0x01, F = 0x10
C18_Witness ==
    /\ Len(log) = 1
    /\ log[1].opcode = 143
    /\ log[1].pre.A = 128
    /\ log[1].pre.F = 16
    /\ cpu.A = 1
    /\ cpu.F = 16
    /\ Ticks(cycles) = 1

SubOpcodes == {214, 144, 150, 151}
SbcOpcodes == {222, 152, 158, 159}

\* C19: SUB A,x leaves A = (A - x) mod 256 and SBC A,x leaves
\* A = (A - x - Cin) mod 256, with Z = (result = 0), N = 1,
\* H = ((x & 0xF) + Cin > (A & 0xF)) and C = (x + Cin > A): C is set exactly
\* when A - x - Cin is negative and H exactly when the difference of the low
\* nibbles is negative
C19_SubSbc ==
    (Len(log) = 1 /\ log[1].opcode \in SubOpcodes \cup SbcOpcodes) =>
        LET a == log[1].pre.A
            x == Operand(1)
            cin == IF log[1].opcode \in SbcOpcodes THEN CarryIn(1) ELSE 0
            result == (a - x - cin + 512) % 256
        IN /\ err.kind = "none"
           /\ cpu.A = result
           /\ Bit(cpu.F, 7) = (result = 0)
           /\ Bit(cpu.F, 6)
           /\ Bit(cpu.F, 5) = ((x % 16) + cin > (a % 16))
           /\ Bit(cpu.F, 5) = ((a % 16) - (x % 16) - cin < 0)
           /\ Bit(cpu.F, 4) = (x + cin > a)
           /\ Bit(cpu.F, 4) = (a - x - cin < 0)
           /\ cpu.F % 16 = 0

\* SBC A,n with A = x = 0xFF and the carry set: A = 0xFF, F = N H C
C19_Witness ==
    /\ Len(log) = 1
    /\ log[1].opcode = 222
    /\ log[1].pre.A = 255
    /\ log[1].next = 255
    /\ log[1].pre.F = 16
    /\ cpu.A = 255
    /\ cpu.F = 112

\* C20: POP AF reads the byte at SP into F, masked with 0xF0, then the byte
\* at SP+1 into A; SP ends 2 higher, the step takes 3 ticks, bits 0..3 of F
\* are zero and its Z, N, H, C bits are bits 7..4 of the byte read
C20_PopAF ==
    (Stepped /\ Last.opcode = 241) =>
        /\ err.kind = "none"
        /\ Ticks(cycles) = 3
        /\ Len(cycles) = 6
        /\ cycles[3].kind = "read" /\ cycles[3].address = Last.pre.SP
        /\ cycles[5].kind = "read" /\ cycles[5].address = (Last.pre.SP + 1) % 65536
        /\ cycles[3].data = MemAt(memory_, Last.pre.SP)
        /\ cycles[5].data = MemAt(memory_, (Last.pre.SP + 1) % 65536)
        /\ cpu.F = (cycles[3].data \div 16) * 16
        /\ cpu.F % 16 = 0
        /\ \A b \in 4..7 : Bit(cpu.F, b) = Bit(cycles[3].data, b)
        /\ cpu.A = cycles[5].data
        /\ cpu.SP = (Last.pre.SP + 2) % 65536
        /\ cpu.PC = (Last.pre.PC + 1) % 65536
        /\ \A r \in {"B", "C", "D", "E", "H", "L"} : cpu[r] = Last.pre[r]

\* POP AF at SP = 0xFFFF with 0xAF at (SP) and 0x12 at 0: F = 0xA0, A = 0x12,
\* SP = 1
C20_Witness ==
    /\ Len(log) = 1
    /\ Last.opcode = 241
    /\ Last.pre.SP = 65535
    /\ Last.pre.F = 15
    /\ cycles[3].data = 175
    /\ cpu.F = 160
    /\ cpu.A = 18
    /\ cpu.SP = 1

\* the amount the rule makes DAA add to A (mod 256), by the incoming flags
DaaShift(a, f) ==
    IF Bit(f, 6)
    THEN 256 - (IF Bit(f, 5) THEN 6 ELSE 0) - (IF Bit(f, 4) THEN 96 ELSE 0)
    ELSE (IF Bit(f, 5) \/ (a % 16) > 9 THEN 6 ELSE 0)
            + (IF Bit(f, 4) \/ a > 153 THEN 96 ELSE 0)

\* C21: DAA takes 1 tick and follows the rule: with N = 0 it adds 0x06 when H
\* is set or the low nibble is over 9, and adds 0x60 and sets C when C is set
\* or A > 0x99 (both tested on the original A); with N = 1 it subtracts 0x06
\* when H is set and 0x60 when C is set and leaves C alone; then
\* Z = (A = 0), H = 0 and N is unchanged
C21_Daa ==
    (Len(log) = 1 /\ log[1].opcode = 39) =>
        LET a == log[1].pre.A
            f == log[1].pre.F
            result == (a + DaaShift(a, f)) % 256
        IN /\ err.kind = "none"
           /\ Ticks(cycles) = 1
           /\ Len(cycles) = 2
           /\ cpu.A = result
           /\ Bit(cpu.F, 7) = (result = 0)
           /\ Bit(cpu.F, 6) = Bit(f, 6)
           /\ ~Bit(cpu.F, 5)
           /\ Bit(cpu.F, 4) = (Bit(f, 4) \/ (~Bit(f, 6) /\ a > 153))
           /\ \A r \in RegNames \ {"A", "F", "PC"} : cpu[r] = log[1].pre[r]

\* DAA on 0x9A after an addition with no flag set: both fixes apply, A = 0x00
\* with Z and C set
C21_Witness ==
    /\ Len(log) = 1
    /\ log[1].opcode = 39
    /\ log[1].pre.A = 154
    /\ log[1].pre.F = 0
    /\ cpu.A = 0
    /\ cpu.F = 144

\* INC t is 0x04 + 8 t and DEC t is 0x05 + 8 t
IncDecOpcodes == {(8 * t) + k : t \in 0..7, k \in {4, 5}}

\* the target of INC t / DEC t: bits 3..5 of the opcode
IncDecTarget(opcode) == R8[((opcode \div 8) % 8) + 1]

\* C24: INC and DEC of a register or of (HL) (3 ticks: fetch, read, write to
\* the same address) wrap modulo 256 and set Z = (result = 0), N = 0 for INC
\* and 1 for DEC, H = (old low nibble = 0xF) for INC and
\* ((result & 0xF) = 0xF) for DEC; C never changes
C24_IncDec ==
    (Len(log) = 1 /\ log[1].opcode \in IncDecOpcodes) =>
        LET r == IncDecTarget(log[1].opcode)
            inc == log[1].opcode % 8 = 4
            hl == (log[1].pre.H * 256) + log[1].pre.L
            old == IF r = "(HL)" THEN log[1].atHL ELSE log[1].pre[r]
            new == IF r = "(HL)" THEN MemAt(memory_, hl) ELSE cpu[r]
            result == (IF inc THEN old + 1 ELSE old + 255) % 256
        IN /\ err.kind = "none"
           /\ new = result
           /\ Bit(cpu.F, 7) = (result = 0)
           /\ Bit(cpu.F, 6) = ~inc
           /\ Bit(cpu.F, 5) = (IF inc THEN old % 16 = 15 ELSE result % 16 = 15)
           /\ Bit(cpu.F, 4) = Bit(log[1].pre.F, 4)
           /\ IF r = "(HL)"
              THEN /\ Ticks(cycles) = 3
                   /\ Len(cycles) = 6
                   /\ cycles[3].kind = "read" /\ cycles[3].address = hl
                   /\ cycles[5].kind = "write" /\ cycles[5].address = hl
                   /\ cycles[5].data = result
                   /\ \A q \in RegNames \ {"F", "PC"} : cpu[q] = log[1].pre[q]
              ELSE /\ Ticks(cycles) = 1
                   /\ Writes(cycles) = {}
                   /\ \A q \in RegNames \ {r, "F", "PC"} : cpu[q] = log[1].pre[q]

\* INC (HL) on 0xFF with the carry set: the byte wraps to 0 and F = Z H C
C24_Witness ==
    /\ Len(log) = 1
    /\ log[1].opcode = 52
    /\ log[1].atHL = 255
    /\ log[1].pre.F = 16
    /\ MemAt(memory_, (cpu.H * 256) + cpu.L) = 0
    /\ cpu.F = 176

CpOpcodes == {254, 184, 190, 191}

\* C25: CP A,x changes no register but F (and PC), and leaves F as SUB A,x
\* leaves it from the same state: Z = (A = x), N = 1,
\* H = ((x & 0xF) > (A & 0xF)), C = (x > A)
C25_Cp ==
    (Len(log) = 1 /\ log[1].opcode \in CpOpcodes) =>
        LET a == log[1].pre.A
            x == Operand(1)
        IN /\ err.kind = "none"
           /\ \A r \in RegNames \ {"F", "PC"} : cpu[r] = log[1].pre[r]
           /\ Writes(cycles) = {}
           /\ Bit(cpu.F, 7) = (a = x)
           /\ Bit(cpu.F, 6)
           /\ Bit(cpu.F, 5) = ((x % 16) > (a % 16))
           /\ Bit(cpu.F, 4) = (x > a)
           /\ cpu.F = SUBv(a, x, log[1].pre.F).f

\* CP A,n with A = 0x10 and n = 0x01: A stays 0x10, F = N H
C25_Witness ==
    /\ Len(log) = 1
    /\ log[1].opcode = 254
    /\ log[1].pre.A = 16
    /\ log[1].next = 1
    /\ log[1].pre.F = 16
    /\ cpu.A = 16
    /\ cpu.F = 96

\* C22: for every SP and every displacement byte e, ADD SP,e leaves
\* SP = (SP + signext(e)) mod 2^16 and LD HL,SP+e leaves HL at that value with
\* SP unchanged; both set Z = 0, N = 0, H = ((SP & 0x0F) + (e & 0x0F) > 0x0F)
\* and C = ((SP & 0xFF) + e > 0xFF) with e taken as unsigned
C22_SPe ==
    (Len(log) = 1 /\ log[1].opcode \in {232, 248}) =>
        LET sp == log[1].pre.SP
            e == log[1].next
            result == (sp + Int8(e) + 65536) % 65536
        IN /\ err.kind = "none"
           /\ IF log[1].opcode = 232
              THEN /\ cpu.SP = result
                   /\ cpu.H = log[1].pre.H /\ cpu.L = log[1].pre.L
              ELSE /\ (cpu.H * 256) + cpu.L = result
                   /\ cpu.SP = sp
           /\ ~Bit(cpu.F, 7)
           /\ ~Bit(cpu.F, 6)
           /\ Bit(cpu.F, 5) = ((sp % 16) + (e % 16) > 15)
           /\ Bit(cpu.F, 4) = ((sp % 256) + e > 255)
           /\ cpu.F % 16 = 0
           /\ \A r \in {"A", "B", "C", "D", "E"} : cpu[r] = log[1].pre[r]

\* ADD SP,-1 at SP = 0x0001 with every flag set: SP = 0x0000 and F = H C,
\* the low byte 0x01 + 0xFF carrying out of bit 3 and of bit 7
C22_Witness ==
    /\ Len(log) = 1
    /\ log[1].opcode = 232
    /\ log[1].pre.SP = 1
    /\ log[1].next = 255
    /\ log[1].pre.F = 240
    /\ cpu.SP = 0
    /\ cpu.F = 48

\* ADD HL,BC / DE / HL / SP: 0x09, 0x19, 0x29, 0x39
AddPairOpcodes == {9, 25, 41, 57}

\* the 16-bit operand of ADD HL,rr in the state before step i
AddPairOperand(i) ==
    LET p == log[i].pre
    IN CASE log[i].opcode = 9  -> (p.B * 256) + p.C
         [] log[i].opcode = 25 -> (p.D * 256) + p.E
         [] log[i].opcode = 41 -> (p.H * 256) + p.L
         [] log[i].opcode = 57 -> p.SP

\* C23: for every HL and every rr of BC, DE, HL, SP, ADD HL,rr leaves
\* HL = (HL + rr) mod 2^16 with N = 0, H = the carry out of bit 11, C = the
\* carry out of bit 15 and Z unchanged; ADD HL,HL adds the HL of before
C23_AddPair ==
    (Len(log) = 1 /\ log[1].opcode \in AddPairOpcodes) =>
        LET hl == (log[1].pre.H * 256) + log[1].pre.L
            rr == AddPairOperand(1)
        IN /\ err.kind = "none"
           /\ (cpu.H * 256) + cpu.L = (hl + rr) % 65536
           /\ Bit(cpu.F, 7) = Bit(log[1].pre.F, 7)
           /\ ~Bit(cpu.F, 6)
           /\ Bit(cpu.F, 5) = ((hl % 4096) + (rr % 4096) > 4095)
           /\ Bit(cpu.F, 4) = (hl + rr > 65535)
           /\ Ticks(cycles) = 2
           /\ Writes(cycles) = {}
           /\ \A r \in RegNames \ {"H", "L", "F", "PC"} : cpu[r] = log[1].pre[r]

\* ADD HL,HL at HL = 0x8888 with Z and N set: HL = 0x1110, F = Z H C
C23_Witness ==
    /\ Len(log) = 1
    /\ log[1].opcode = 41
    /\ log[1].pre.H = 136
    /\ log[1].pre.L = 136
    /\ log[1].pre.F = 192
    /\ cpu.H = 17
    /\ cpu.L = 16
    /\ cpu.F = 176

\* JR e is 0x18; JR NZ / Z / NC / C,e are 0x20, 0x28, 0x30, 0x38
JrOpcodes == {24, 32, 40, 48, 56}

\* C29: JR e and a taken JR cc,e set PC to (the address of the byte after
\* the 2-byte instruction + signext(e)) mod 2^16 for every e in 0..255, and
\* e >= 0x80 jumps backwards; a not-taken JR cc,e leaves PC after the
\* instruction
C29_Jr ==
    (Len(log) = 1 /\ log[1].opcode \in JrOpcodes) =>
        LET e == log[1].next
            after == (log[1].pre.PC + 2) % 65536
            taken == log[1].opcode = 24 \/ Cond(log[1].opcode, log[1].pre.F)
        IN /\ err.kind = "none"
           /\ cpu.PC = IF taken
                       THEN (after + (IF e >= 128 THEN e - 256 ELSE e) + 65536) % 65536
                       ELSE after
           /\ Ticks(cycles) = IF taken THEN 3 ELSE 2
           /\ Writes(cycles) = {}
           /\ \A r \in RegNames \ {"PC"} : cpu[r] = log[1].pre[r]

\* JR -128 at PC = 0x0000: the jump goes backwards through 0 to 0xFF82
C29_Witness ==
    /\ Len(log) = 1
    /\ log[1].opcode = 24
    /\ log[1].pre.PC = 0
    /\ log[1].next = 128
    /\ cpu.PC = 65410

\* LD (HL+),A, LD A,(HL+), LD (HL-),A, LD A,(HL-): 0x22, 0x2A, 0x32, 0x3A
HLxOpcodes == {34, 42, 50, 58}

\* C27: LD A,(HL+), LD A,(HL-), LD (HL+),A and LD (HL-),A access memory at
\* the HL of before the instruction and only then update HL: the tick
\* callback of that access still observes the old HL; after the step
\* HL = old HL +/- 1 mod 2^16 and exactly 2 ticks were emitted
C27_AccessThenUpdate ==
    (Len(log) = 1 /\ log[1].opcode \in HLxOpcodes) =>
        LET hl == (log[1].pre.H * 256) + log[1].pre.L
            delta == IF log[1].opcode \in {34, 42} THEN 1 ELSE 65535
        IN /\ err.kind = "none"
           /\ Ticks(cycles) = 2
           /\ Len(cycles) = 4
           /\ cycles[3].kind = (IF log[1].opcode \in {34, 50} THEN "write" ELSE "read")
           /\ cycles[3].address = hl
           /\ cycles[4].kind = "tick"
           /\ cycles[4].HL = hl
           /\ (cpu.H * 256) + cpu.L = (hl + delta) % 65536

\* C28: step reads the opcode at PC, emits the tick of that read and then
\* advances PC by 1: the tick callback of the opcode fetch observes PC equal
\* to the address just read
C28_FetchTickSeesPC ==
    (Stepped /\ Len(cycles) >= 2) =>
        /\ cycles[1].kind = "read"
        /\ cycles[1].address = Last.pre.PC
        /\ cycles[2].kind = "tick"
        /\ cycles[2].PC = cycles[1].address

\* RST 0x00 .. RST 0x38: 0xC7 + 8 n
RstOpcodes == {199, 207, 215, 223, 231, 239, 247, 255}

\* the last step was a PUSH rr, an RST or a CALL that was taken
Pushing ==
    /\ Stepped
    /\ \/ Last.opcode \in PushOpcodes \cup RstOpcodes \cup {205}
       \/ Last.opcode \in {196, 204, 212, 220} /\ Cond(Last.opcode, Last.pre.F)

\* C26: PUSH rr, a taken CALL and RST emit their internal tick before any
\* write, then write the high byte at SP-1 and only then the low byte at
\* SP-2 (modulo 2^16) and end with SP = SP-2; CALL and RST push the address
\* of the byte after the whole instruction; no flag changes
C26_PushOrder ==
    Pushing =>
        LET before == Last.pre
            call == Last.opcode \notin PushOpcodes \cup RstOpcodes
            base == IF call THEN 6 ELSE 2
            value == IF Last.opcode \in PushOpcodes
                     THEN (before[StackPair(Last.opcode)[1]] * 256)
                              + before[StackPair(Last.opcode)[2]]
                     ELSE (before.PC + (IF call THEN 3 ELSE 1)) % 65536
        IN /\ err.kind = "none"
           /\ Len(cycles) = base + 5
           /\ Writes(cycles) = {base + 2, base + 4}
           /\ cycles[base + 1].kind = "tick"
           /\ cycles[base + 1].after = "internal"
           /\ cycles[base + 2].address = (before.SP + 65535) % 65536
           /\ cycles[base + 2].data = value \div 256
           /\ cycles[base + 4].address = (before.SP + 65534) % 65536
           /\ cycles[base + 4].data = value % 256
           /\ cpu.SP = (before.SP + 65534) % 65536
           /\ cpu.F = before.F

\* CALL nn at PC = 0x0100 with SP = 0xFFFE: 0x01 is written at 0xFFFD, then
\* 0x03 at 0xFFFC, and SP = 0xFFFC
C26_Witness ==
    /\ Len(log) = 1
    /\ log[1].opcode = 205
    /\ log[1].pre.PC = 256
    /\ log[1].pre.SP = 65534
    /\ Len(cycles) = 11
    /\ cycles[8].kind = "write" /\ cycles[8].address = 65533 /\ cycles[8].data = 1
    /\ cycles[10].kind = "write" /\ cycles[10].address = 65532 /\ cycles[10].data = 3
    /\ cpu.SP = 65532

\* C30: BIT n,t sets Z = (bit n of t is 0), N = 0, H = 1 and changes neither
\* C, nor the tested register, nor memory; RES n,t and SET n,t change no flag
\* at all, for every n in 0..7 and every target
C30_BitFlags ==
    (Stepped /\ Last.opcode = 203 /\ Last.next >= 64) =>
        LET n == BitIndex(Last.next)
            t == TargetBefore(Len(log))
        IN /\ err.kind = "none"
           /\ IF Last.next < 128
              THEN /\ Bit(cpu.F, 7) = ~Bit(t, n)
                   /\ ~Bit(cpu.F, 6)
                   /\ Bit(cpu.F, 5)
                   /\ Bit(cpu.F, 4) = Bit(Last.pre.F, 4)
                   /\ TargetNow = t
                   /\ Writes(cycles) = {}
                   /\ \A r \in RegNames \ {"F", "PC"} : cpu[r] = Last.pre[r]
              ELSE cpu.F = Last.pre.F

\* BIT 7,H on H = 0xC0 with every flag set: F = H C, the carry kept, and H
\* is still 0xC0
C30_Witness ==
    /\ Len(log) = 1
    /\ log[1].opcode = 203
    /\ log[1].next = 124
    /\ log[1].pre.H = 192
    /\ log[1].pre.F = 240
    /\ cpu.F = 48
    /\ cpu.H = 192

\* the loads, the stack instructions and the 16-bit INC / DEC, POP AF
\* (0xF1) and LD HL,SP+e (0xF8) left out:
\* LD r,r' and LD via (HL) (0x40..0x7F but HALT), LD r,n and LD (HL),n,
\* LD via (BC), (DE), (HL+), (HL-), LD rr,nn, LD (nn),SP, INC rr, DEC rr,
\* LDH and LD via (C), LD via (nn), LD SP,HL, PUSH rr, POP BC / DE / HL
LoadOpcodes ==
    ((64..127) \ {118})
    \cup {(8 * t) + 6 : t \in 0..7}
    \cup {2, 10, 18, 26, 34, 42, 50, 58}
    \cup {1, 17, 33, 49, 8}
    \cup {3, 19, 35, 51, 11, 27, 43, 59}
    \cup {224, 240, 226, 242, 234, 250, 249}
    \cup PushOpcodes \cup {193, 209, 225}

\* C31: no load, stack or 16-bit increment instruction changes F: after any
\* of them F is what it was before the step
C31_LoadsKeepF ==
    (Stepped /\ Last.opcode \in LoadOpcodes) =>
        /\ err.kind = "none"
        /\ cpu.F = Last.pre.F

\* DEC BC at BC = 0x0001 with only C set: BC = 0x0000 and F is still 0x10,
\* neither Z nor N is set
C31_Witness ==
    /\ Len(log) = 1
    /\ log[1].opcode = 11
    /\ log[1].pre.B = 0
    /\ log[1].pre.C = 1
    /\ log[1].pre.F = 16
    /\ cpu.B = 0
    /\ cpu.C = 0
    /\ cpu.F = 16

\* C32: if bits 0..3 of F are zero before a step they are zero after it, for
\* every opcode and for steps that end in an illegal-opcode error too; hence
\* after a reset with an F whose low nibble is zero, bits 0..3 of F are zero
\* in every state that steps can reach
C32_LowNibbleStaysZero ==
    /\ (Stepped /\ Last.pre.F % 16 = 0) => cpu.F % 16 = 0
    /\ initial.F % 16 = 0 => cpu.F % 16 = 0

\* POP AF with F = 0x00 and the byte 0xFF on the stack: F = 0xF0
C32_Witness ==
    /\ Len(log) = 1
    /\ log[1].opcode = 241
    /\ initial.F = 0
    /\ log[1].pre.F = 0
    /\ MemAt(memory_, log[1].pre.SP) = 255
    /\ cpu.F = 240

\* JR cc,e 0x20.., JP cc,nn 0xC2.., CALL cc,nn 0xC4.., RET cc 0xC0..
ConditionalOpcodes ==
    {32, 40, 48, 56} \cup {194, 202, 210, 218} \cup {196, 204, 212, 220}
        \cup {192, 200, 208, 216}

\* the number of operand bytes of a conditional instruction
OperandBytes(opcode) ==
    CASE opcode \in {32, 40, 48, 56} -> 1
      [] opcode \in {192, 200, 208, 216} -> 0
      [] OTHER -> 2

\* C33: when their condition is false, JR cc,e, JP cc,nn, CALL cc,nn and
\* RET cc change nothing but PC: SP, the byte registers, F and memory are as
\* before, there is no bus write and no stack read, the operand bytes are
\* still read (JR 1, JP 2, CALL 2, RET 0) and PC is the address after the
\* instruction; RET cc emits its internal tick whether or not the condition
\* holds
C33_NotTaken ==
    /\ (Stepped /\ Last.opcode \in ConditionalOpcodes
            /\ ~Cond(Last.opcode, Last.pre.F)) =>
          LET k == OperandBytes(Last.opcode)
          IN /\ err.kind = "none"
             /\ \A r \in RegNames \ {"PC"} : cpu[r] = Last.pre[r]
             /\ cpu.PC = (Last.pre.PC + 1 + k) % 65536
             /\ Writes(cycles) = {}
             /\ Cardinality(Reads(cycles)) = 1 + k
             /\ \A i \in Reads(cycles) :
                   cycles[i].address = (Last.pre.PC + ((i - 1) \div 2)) % 65536
             /\ Ticks(cycles) = IF k = 0 THEN 2 ELSE 1 + k
    /\ (Stepped /\ Last.opcode \in {192, 200, 208, 216}) =>
          /\ Len(cycles) >= 3
          /\ cycles[3].kind = "tick"
          /\ cycles[3].after = "internal"

\* CALL NZ,nn with Z set at PC = 0x0100: PC = 0x0103, SP is still 0xFFFE,
\* both operand bytes were read and nothing was written
C33_Witness ==
    /\ Len(log) = 1
    /\ log[1].opcode = 196
    /\ log[1].pre.F = 128
    /\ log[1].pre.PC = 256
    /\ cpu.PC = 259
    /\ cpu.SP = 65534
    /\ Cardinality(Reads(cycles)) = 3
    /\ Writes(cycles) = {}

\* the ordered bus reads and writes of a step: kind, address and byte
AccessTrace(cyc) ==
    LET acc == SelectSeq(cyc, IsAccess)
    IN [i \in 1..Len(acc) |-> <<acc[i].kind, acc[i].address, acc[i].data>>]

\* C34: the tick callback is an observer only: a step made with no callback
\* installed ends with the same registers, the same memory and the same
\* ordered sequence of bus reads and writes (and the same error, if any) as
\* the step made with the callback installed
C34_CallbackObserves ==
    Stepped =>
        /\ Last.quiet.cpu = cpu
        /\ Last.quiet.mem = memory_
        /\ AccessTrace(Last.quiet.cycles) = AccessTrace(cycles)
        /\ Last.quiet.err = err.kind

\* CALL nn: the observed step has 6 ticks among its 11 events, the step
\* with no callback has its 5 bus accesses and no tick, and both end at the
\* same PC and SP
C34_Witness ==
    /\ Len(log) = 1
    /\ log[1].opcode = 205
    /\ Ticks(cycles) = 6
    /\ Len(cycles) = 11
    /\ Len(log[1].quiet.cycles) = 5
    /\ Ticks(log[1].quiet.cycles) = 0
    /\ log[1].quiet.cpu.SP = (log[1].pre.SP + 65534) % 65536
    /\ cpu.SP = log[1].quiet.cpu.SP

\* C35: a step that returns normally emits at least 1 and at most 6 ticks,
\* makes at most 2 bus writes, and its first bus access is a read at the PC
\* of before the step; a step that fails with an illegal opcode emits
\* exactly 1 tick
C35_StepBounds ==
    /\ Returned =>
          /\ Ticks(cycles) \in 1..6
          /\ Cardinality(Writes(cycles)) <= 2
          /\ cycles[1].kind = "read"
          /\ cycles[1].address = Last.pre.PC
    /\ (Stepped /\ err.kind = "illegal") => Ticks(cycles) = 1

\* CALL nn at PC = 0xFFFE reaches both bounds: 6 ticks and 2 writes, after
\* a first read at 0xFFFE
C35_Witness ==
    /\ Returned
    /\ Last.opcode = 205
    /\ Last.pre.PC = 65534
    /\ Ticks(cycles) = 6
    /\ Cardinality(Writes(cycles)) = 2
    /\ cycles[1].address = 65534

\* the instructions that may emit a tick with no bus access: INC rr, DEC rr,
\* ADD HL,rr, a taken JR, JP nn and a taken JP cc,nn, a taken CALL, RET,
\* RETI, RET cc, PUSH, RST, LD SP,HL, ADD SP,e, LD HL,SP+e, HALT and STOP
EmitsInternal(opcode, f) ==
    \/ opcode \in {3, 19, 35, 51, 11, 27, 43, 59, 9, 25, 41, 57}
    \/ opcode \in {24, 195, 205}
    \/ opcode \in {32, 40, 48, 56, 194, 202, 210, 218, 196, 204, 212, 220}
          /\ Cond(opcode, f)
    \/ opcode \in {201, 217, 192, 200, 208, 216}
    \/ opcode \in PushOpcodes \cup RstOpcodes
    \/ opcode \in {249, 232, 248, 118, 16}

\* the ticks of a step that follow no bus access
InternalTicks(cyc) ==
    {i \in DOMAIN cyc : cyc[i].kind = "tick" /\ cyc[i].after = "internal"}

\* C36: ticks with no corresponding bus access are emitted only by the
\* instructions of EmitsInternal; in a step of any other instruction the
\* number of ticks equals the number of bus accesses
C36_InternalTicks ==
    (Stepped /\ ~EmitsInternal(Last.opcode, Last.pre.F)) =>
        /\ InternalTicks(cycles) = {}
        /\ Ticks(cycles) = Cardinality(Reads(cycles) \cup Writes(cycles))

\* LD (nn),SP: 5 ticks for 3 reads and 2 writes, none of them internal
C36_Witness ==
    /\ Returned
    /\ Last.opcode = 8
    /\ Ticks(cycles) = 5
    /\ Cardinality(Reads(cycles)) = 3
    /\ Cardinality(Writes(cycles)) = 2
    /\ InternalTicks(cycles) = {}

\* the addresses of the bus reads and of the bus writes of a step, in order
ReadAddresses(cyc) ==
    LET acc == SelectSeq(cyc, LAMBDA e : e.kind = "read")
    IN [i \in 1..Len(acc) |-> acc[i].address]

WriteAddresses(cyc) ==
    LET acc == SelectSeq(cyc, LAMBDA e : e.kind = "write")
    IN [i \in 1..Len(acc) |-> acc[i].address]

\* C37: register and address arithmetic wraps modulo 2^16 and every address
\* presented to the bus lies in 0..0xFFFF: a fetch at PC = 0xFFFF leaves
\* PC = 0x0000 and reads the operands from 0x0000 on; PUSH at SP = 0x0000
\* writes at 0xFFFF then 0xFFFE; POP at SP = 0xFFFF reads at 0xFFFF then
\* 0x0000; LD (0xFFFF),SP writes the high byte of SP at 0x0000; INC rr at
\* 0xFFFF gives 0x0000 and DEC rr at 0x0000 gives 0xFFFF
C37_Wraps ==
    /\ cpu.SP \in 0..65535 /\ cpu.PC \in 0..65535
    /\ \A r \in RegNames \ {"SP", "PC"} : cpu[r] \in Byte
    /\ \A i \in DOMAIN cycles : cycles[i].address \in 0..65535
    /\ (Len(log) = 1 /\ log[1].pre.PC = 65535) =>
          /\ cycles[2].kind = "tick" /\ cycles[2].PC = 0
          /\ \A i \in DOMAIN ReadAddresses(cycles) :
                ReadAddresses(cycles)[i] = (65535 + (i - 1)) % 65536
          /\ log[1].opcode = 1 => cpu.PC = 2 /\ cpu.C = log[1].next /\ cpu.B = 0
          /\ log[1].opcode = 62 => cpu.PC = 1 /\ cpu.A = log[1].next
    /\ (Len(log) = 1 /\ log[1].opcode \in PushOpcodes /\ log[1].pre.SP = 0) =>
          /\ WriteAddresses(cycles) = <<65535, 65534>>
          /\ cpu.SP = 65534
    /\ (Len(log) = 1 /\ log[1].opcode \in PopOpcodes /\ log[1].pre.SP = 65535) =>
          /\ ReadAddresses(cycles) = <<log[1].pre.PC, 65535, 0>>
          /\ cpu.SP = 1
    /\ (Len(log) = 1 /\ log[1].opcode = 8 /\ log[1].next = 255
            /\ MemAt(memory_, (log[1].pre.PC + 2) % 65536) = 255) =>
          /\ WriteAddresses(cycles) = <<65535, 0>>
          /\ MemAt(memory_, 65535) = log[1].pre.SP % 256
          /\ MemAt(memory_, 0) = log[1].pre.SP \div 256
    /\ (Len(log) = 1 /\ log[1].opcode \in {3, 19, 35}
            /\ log[1].pre[StackPair(log[1].opcode + 190)[1]] = 255
            /\ log[1].pre[StackPair(log[1].opcode + 190)[2]] = 255) =>
          /\ cpu[StackPair(log[1].opcode + 190)[1]] = 0
          /\ cpu[StackPair(log[1].opcode + 190)[2]] = 0
    /\ (Len(log) = 1 /\ log[1].opcode = 51 /\ log[1].pre.SP = 65535) => cpu.SP = 0
    /\ (Len(log) = 1 /\ log[1].opcode \in {11, 27, 43}
            /\ log[1].pre[StackPair(log[1].opcode + 182)[1]] = 0
            /\ log[1].pre[StackPair(log[1].opcode + 182)[2]] = 0) =>
          /\ cpu[StackPair(log[1].opcode + 182)[1]] = 255
          /\ cpu[StackPair(log[1].opcode + 182)[2]] = 255
    /\ (Len(log) = 1 /\ log[1].opcode = 59 /\ log[1].pre.SP = 0) => cpu.SP = 65535

\* LD (0xFFFF),SP with SP = 0xABAB: 0xAB is written at 0xFFFF and then at
\* 0x0000
C37_Witness ==
    /\ Len(log) = 1
    /\ log[1].opcode = 8
    /\ log[1].pre.SP = 43947
    /\ Len(cycles) = 10
    /\ cycles[7].kind = "write" /\ cycles[7].address = 65535 /\ cycles[7].data = 171
    /\ cycles[9].kind = "write" /\ cycles[9].address = 0 /\ cycles[9].data = 171

\* the number 0..99 a packed-BCD byte stands for, and the byte of a number
FromBcd(x) == ((x \div 16) * 10) + (x % 16)
ToBcd(n) == ((n \div 10) * 16) + (n % 10)

\* ADD / ADC / SUB / SBC A,n on packed-BCD bytes, then DAA, have run
ArithmeticThenDaa ==
    /\ Len(log) = 2
    /\ log[1].opcode \in {198, 206, 214, 222}
    /\ log[2].opcode = 39
    /\ log[1].pre.A % 16 <= 9 /\ log[1].pre.A \div 16 <= 9
    /\ log[1].next % 16 <= 9 /\ log[1].next \div 16 <= 9

\* C38: for packed-BCD bytes a and b and carry-in c (0 for ADD and SUB),
\* ADD/ADC A,b then DAA leaves A = the packed BCD of (a + b + c) mod 100 and
\* C = (a + b + c >= 100); SUB/SBC A,b then DAA leaves A = the packed BCD of
\* (a - b - c) mod 100 and C = (a - b - c < 0)
C38_Bcd ==
    ArithmeticThenDaa =>
        LET a == FromBcd(log[1].pre.A)
            b == FromBcd(log[1].next)
            c == IF log[1].opcode \in {206, 222} /\ Bit(log[1].pre.F, 4) THEN 1 ELSE 0
            t == IF log[1].opcode \in {198, 206} THEN a + b + c ELSE a - b - c
        IN /\ err.kind = "none"
           /\ cpu.A = ToBcd((t + 100) % 100)
           /\ Bit(cpu.F, 4) = (IF log[1].opcode \in {198, 206} THEN t >= 100 ELSE t < 0)

\* 19 + 19 + 1 by ADC then DAA: 0x19 + 0x19 + 1 = 0x33 with H set, fixed to
\* 0x39 with no carry
C38_Witness ==
    /\ ArithmeticThenDaa
    /\ log[1].opcode = 206
    /\ log[1].pre.A = 25
    /\ log[1].next = 25
    /\ log[1].pre.F = 240
    /\ log[2].pre.A = 51
    /\ cpu.A = 57
    /\ ~Bit(cpu.F, 4)

\* the instructions that write SP other than by a push or a pop:
\* LD SP,nn, INC SP, DEC SP, ADD SP,e, LD SP,HL
SPWriters == {49, 51, 59, 232, 249}

\* step i pushed two bytes: PUSH rr, RST, CALL nn or a taken CALL cc,nn
StepPushes(i) ==
    \/ log[i].opcode \in PushOpcodes \cup RstOpcodes \cup {205}
    \/ log[i].opcode \in {196, 204, 212, 220} /\ Cond(log[i].opcode, log[i].pre.F)

\* step i popped two bytes: POP rr, RET, RETI or a taken RET cc
StepPops(i) ==
    \/ log[i].opcode \in PopOpcodes \cup {201, 217}
    \/ log[i].opcode \in {192, 200, 208, 216} /\ Cond(log[i].opcode, log[i].pre.F)

\* C39: over a sequence of steps with no instruction that writes SP but
\* PUSH, POP, CALL, RET / RETI / RET cc and RST, the final SP is the first
\* SP - 2 * (PUSH + taken CALL + RST) + 2 * (POP + taken RET / RETI / RET cc)
\* modulo 2^16: no other instruction among these changes SP
C39_StackBalance ==
    (Stepped /\ \A i \in DOMAIN log : log[i].opcode \notin SPWriters) =>
        LET down == Cardinality({i \in DOMAIN log : StepPushes(i)})
            up == Cardinality({i \in DOMAIN log : StepPops(i)})
        IN cpu.SP = (log[1].pre.SP + (2 * up) + ((65536 - 2) * down)) % 65536

\* RET Z taken at SP = 0xFFFE to 0x0111, then PUSH BC there:
\* SP goes through 0x0000 and is 0xFFFE again
C39_Witness ==
    /\ Len(log) = 2
    /\ log[1].opcode = 200
    /\ log[1].pre.F = 144
    /\ log[1].pre.SP = 65534
    /\ log[2].pre.SP = 0
    /\ log[2].pre.PC = 273
    /\ log[2].opcode = 197
    /\ cpu.SP = 65534

=============================================================================
